---- MODULE Spec2Model ----
(***************************************************************************)
(* Model of sbmr::chunk_resource: a fixed-size-block memory resource made  *)
(* of chunk_options, _impl::chunk_resource_runtime (block array and index  *)
(* stack), _impl::chunk_resource_consteval (registry of compile-time typed *)
(* allocations) and the chunk_resource facade.                             *)
(*                                                                         *)
(* Addresses are natural numbers, nullptr is 0.  std::size_t is SizeBits   *)
(* wide and std::ptrdiff_t is its signed counterpart.                      *)
(***************************************************************************)
EXTENDS Integers, Sequences, FiniteSets, TLC

\* ---------------------------------------------------------------------------
\* Bounds of the model
\* ---------------------------------------------------------------------------
SizeBits == 6
MaxBlockSize == 3
MaxAlignLog == 1
MaxBlockCount == 3

\* during constant evaluation: the largest pool, and the most registry entries
MaxConstevalBlockCount == MaxBlockCount - 1
MaxPtrs == MaxBlockCount - 1

\* ---------------------------------------------------------------------------
\* Platform and program constants
\* ---------------------------------------------------------------------------
max_default_align == 16
PAGE_SIZE == 4096

Pow2(k) == 2 ^ k
TwoToW == Pow2(SizeBits)
umax == TwoToW - 1
imax == Pow2(SizeBits - 1) - 1

\* conversion of a mathematical integer to std::size_t
ToSizeT(x) == x % TwoToW

Min(a, b) == IF a < b THEN a ELSE b

nullptr == 0

\* std::has_single_bit
has_single_bit(a) == \E k \in 0..(SizeBits - 1) : a = Pow2(k)

\* std::bit_ceil, for arguments below PAGE_SIZE
bit_ceil(x) == IF x <= 1 THEN 1
               ELSE CHOOSE p \in {Pow2(k) : k \in 0..12} : p >= x /\ p < 2 * x

\* ---------------------------------------------------------------------------
\* chunk_options
\* ---------------------------------------------------------------------------
valid_sizeof(size, count) ==
    IF size = 0 \/ count = 0 THEN FALSE
    ELSE LET overflows_size    == size > (umax \div count)
             overflows_ptrdiff == ToSizeT(size * count) > imax
         IN  ~overflows_size /\ ~overflows_ptrdiff

valid(o) == valid_sizeof(o.block_size, o.block_count) /\ has_single_bit(o.block_align)

\* variant: the product is compared without the overflow check
compatible_with_unchecked(o, T, n) ==
    (ToSizeT(T.size * n) <= o.block_size) /\ (T.align <= o.block_align)

\* chunk_options::compatible_with<T>(n); T is [size |-> sizeof(T), align |-> alignof(T)]
compatible_with(o, T, n) ==
    IF n > (umax \div T.size) THEN FALSE
    ELSE (ToSizeT(T.size * n) <= o.block_size) /\ (T.align <= o.block_align)

\* variant: the loop runs while size <= block_size
RECURSIVE PadLoop_inclusive(_, _, _)
PadLoop_inclusive(size, block_size, block_align) ==
    IF size <= block_size
    THEN PadLoop_inclusive(ToSizeT(size + block_align), block_size, block_align)
    ELSE size

\* the padding loop of normalized(): size += block_align while size < block_size
RECURSIVE PadLoop(_, _, _)
PadLoop(size, block_size, block_align) ==
    IF size < block_size
    THEN PadLoop(ToSizeT(size + block_align), block_size, block_align)
    ELSE size

\* variant: the largest power of two not above size
LowBit_highest_bit(size) ==
    IF size = 0 THEN 0
    ELSE CHOOSE p \in {Pow2(k) : k \in 0..(SizeBits - 1)} : p <= size /\ size < 2 * p

\* size & (~(size - 1u)): the largest power of two dividing size
LowBit(size) ==
    IF size = 0 THEN 0
    ELSE CHOOSE p \in {Pow2(k) : k \in 0..(SizeBits - 1)} :
            size % p = 0 /\ (size \div p) % 2 = 1

\* variant: the align is not capped at max_default_align
normalized_uncapped(o) ==
    LET size  == PadLoop(o.block_align, o.block_size, o.block_align)
        align == IF o.block_align < max_default_align
                 THEN LowBit(size)
                 ELSE o.block_align
    IN  [block_size |-> size, block_align |-> align, block_count |-> o.block_count]

normalized(o) ==
    LET size  == PadLoop(o.block_align, o.block_size, o.block_align)
        align == IF o.block_align < max_default_align
                 THEN Min(LowBit(size), max_default_align)
                 ELSE o.block_align
    IN  [block_size |-> size, block_align |-> align, block_count |-> o.block_count]

ValidChunkOptions(o) ==
    /\ o.block_size > 0
    /\ o.block_count > 0
    /\ has_single_bit(o.block_align)
    /\ valid_sizeof(o.block_size, o.block_count)

\* the template arguments the model instantiates chunk_resource with
OptsSet ==
    {o \in [block_size : {MaxBlockSize},
            block_align : {1, Pow2(MaxAlignLog)},
            block_count : 1..MaxBlockCount] :
        valid(o) /\ ValidChunkOptions(normalized(o))}

\* the template arguments exercised during constant evaluation
ConstevalOptsSet ==
    {o \in OptsSet : /\ o.block_count <= MaxConstevalBlockCount
                     /\ o.block_align = Pow2(MaxAlignLog)}

\* ---------------------------------------------------------------------------
\* State
\* ---------------------------------------------------------------------------
VARIABLES
    mode,                 \* "runtime" or "consteval": std::is_constant_evaluated()
    Opts,                 \* template argument of chunk_resource
    s_options,            \* static constexpr s_options = Opts.normalized()
    blocks,               \* address of m_blocks[0]
    zero,                 \* address of _s_zero_block
    m_available_blocks,
    m_block_index_stack,  \* [0..N-1 -> block index]
    m_ptrs,               \* m_consteval.m_ptrs: sequence of alloc_info [p, n]
    m_cap,                \* capacity of m_consteval.m_ptrs
    outstanding,          \* history: pointers handed out by non-zero allocations, not yet returned
    fresh_allocs,         \* history: successful non-zero allocations so far, -1 once anything was deallocated
    last,                 \* history: the last call that changed the pool or failed an assertion: member function, kind of outcome, pointer returned or given
    aborted,              \* an assertion has failed
    lifo_order            \* history: while a run-time pool was used strictly last-in first-out, the outstanding pointers, oldest first; LifoBroken afterwards

vars == <<mode, Opts, s_options, blocks, zero, m_available_blocks, m_block_index_stack,
          m_ptrs, m_cap, outstanding, fresh_allocs, last, aborted, lifo_order>>

\* the value of lifo_order once a block other than the most recently
\* allocated outstanding one was returned, and throughout constant evaluation
LifoBroken == <<-1>>

N == s_options.block_count

\* ---------------------------------------------------------------------------
\* _impl::chunk_resource_runtime
\* ---------------------------------------------------------------------------

\* sizeof(block_type): block_size bytes, padded to a multiple of alignas(block_align)
sizeof_block_type ==
    ((s_options.block_size + s_options.block_align - 1) \div s_options.block_align)
        * s_options.block_align

\* std::numeric_limits<block_index_type>::max(), block_index_type being uint_least8_t
block_index_type_max == 255

\* variant: the offset taken in bytes, not in blocks
BlockAddr_in_bytes(i) == blocks + i

\* std::data(m_blocks) + i, as an address
BlockAddr(i) == blocks + i * sizeof_block_type

\* variant: the constructor fills the stack with 0, 1, ..., count - 1
InitialStack_ascending(count) == [i \in 0..(count - 1) |-> i]

\* the index stack the constructor builds: i = --size for each element in turn
InitialStack(count) == [i \in 0..(count - 1) |-> count - 1 - i]

\* std::sort(first, first + k, std::greater{}) on the prefix [0, k) of f
SortDescPrefix(f, k) ==
    LET rank(j) == Cardinality({m \in 0..(k - 1) :
                        f[m] > f[j] \/ (f[m] = f[j] /\ m < j)})
    IN  [i \in DOMAIN f |->
            IF i < k THEN f[CHOOSE j \in 0..(k - 1) : rank(j) = i] ELSE f[i]]

\* variant: the sort runs to stack_end() instead of stack_midpoint()
rsort_available_indexes_whole_stack ==
    SortDescPrefix(m_block_index_stack, s_options.block_count)

\* variant: the function returns without sorting
rsort_available_indexes_no_sort == m_block_index_stack

rsort_available_indexes == SortDescPrefix(m_block_index_stack, m_available_blocks)

\* the rotate-right loop of optimistic_sort:
\*   do { *rhs = *lhs; } while ((--rhs != first) && !cmp(*(--lhs), key)); *rhs = key;
RECURSIVE RotateRight(_, _, _, _)
RotateRight(f, rhs, lhs, key) ==
    LET f1   == [f EXCEPT ![rhs] = f[lhs]]
        rhs1 == rhs - 1
    IN  IF rhs1 # 0 /\ ~(f1[lhs - 1] > key)
        THEN RotateRight(f1, rhs1, lhs - 1, key)
        ELSE [f1 EXCEPT ![rhs1] = key]

\* the outer loop of optimistic_sort, it being the position of the element to place
RECURSIVE OptimisticLoop(_, _, _)
OptimisticLoop(f, it, sen) ==
    IF it = sen THEN f
    ELSE IF ~(f[it - 1] > f[it])
         THEN OptimisticLoop(RotateRight(f, it, it - 1, f[it]), it + 1, sen)
         ELSE OptimisticLoop(f, it + 1, sen)

\* variant: the input is taken to be sorted already
optimistic_sort_trusting(f, k) == f

\* optimistic_sort(first, first + k, std::greater{}) on the prefix [0, k) of f
optimistic_sort(f, k) == IF k = 0 THEN f ELSE OptimisticLoop(f, 1, k)

\* variant: the comparison is std::less, the prefix ends up ascending
rsort_optimistic_available_indexes_ascending ==
    LET d == optimistic_sort(m_block_index_stack, m_available_blocks)
    IN  [i \in DOMAIN d |->
            IF i < m_available_blocks THEN d[m_available_blocks - 1 - i] ELSE d[i]]

rsort_optimistic_available_indexes ==
    optimistic_sort(m_block_index_stack, m_available_blocks)

\* variant: the upper end of the range is taken block_count bytes above the
\* lower end, not block_count blocks above it
is_maybe_owned_byte_count(p) ==
    IF p = nullptr \/ p = zero THEN FALSE
    ELSE LET lo == blocks
             hi == blocks + s_options.block_count
         IN  p >= lo /\ p < hi

is_maybe_owned(p) ==
    IF p = nullptr \/ p = zero THEN FALSE
    ELSE LET lo == blocks
             hi == BlockAddr(s_options.block_count)
         IN  p >= lo /\ p < hi

\* first scan of is_owned at compile time: from blocks + m_available_blocks upwards
RECURSIVE OwnedScanUp(_, _)
OwnedScanUp(it, p) ==
    IF it <= p
    THEN IF it = p THEN TRUE ELSE OwnedScanUp(it + sizeof_block_type, p)
    ELSE FALSE

\* second scan of is_owned at compile time: from blocks up to mid
RECURSIVE OwnedScanLow(_, _, _)
OwnedScanLow(it, mid, p) ==
    IF it # mid /\ it <= p
    THEN IF it = p THEN TRUE ELSE OwnedScanLow(it + sizeof_block_type, mid, p)
    ELSE FALSE

\* variant: only the first scan, over the allocated blocks, is made
is_owned_consteval_allocated_only(p) ==
    OwnedScanUp(BlockAddr(m_available_blocks), p)

is_owned_consteval(p) ==
    LET mid == BlockAddr(m_available_blocks)
    IN  OwnedScanUp(mid, p) \/ OwnedScanLow(blocks, mid, p)

\* variant: any address inside the array passes
is_owned_runtime_any_offset(p) == TRUE

is_owned_runtime(p) == ((p - blocks) % sizeof_block_type) = 0

is_owned(p) ==
    IF ~is_maybe_owned(p) THEN FALSE
    ELSE IF mode = "consteval" THEN is_owned_consteval(p)
    ELSE is_owned_runtime(p)

\* block_index at compile time: walk the blocks, counting; the assertion is
\* idx < block_count.  Result: [failed, idx].
RECURSIVE BlockIndexScan(_, _, _)
BlockIndexScan(it, idx, p) ==
    IF it <= p
    THEN IF ~(idx < s_options.block_count) THEN [failed |-> TRUE, idx |-> idx]
         ELSE IF it = p THEN [failed |-> FALSE, idx |-> idx]
         ELSE BlockIndexScan(it + sizeof_block_type,
                             (idx + 1) % (block_index_type_max + 1), p)
    ELSE [failed |-> FALSE, idx |-> idx]

block_index_runtime(p) ==
    LET idiff == (p - blocks) \div sizeof_block_type
        udiff == ToSizeT(idiff)
    IN  IF ~(idiff >= 0) \/ ~(udiff <= block_index_type_max)
           \/ ~(udiff < s_options.block_count)
        THEN [failed |-> TRUE, idx |-> 0]
        ELSE [failed |-> FALSE, idx |-> udiff % (block_index_type_max + 1)]

block_index(p) ==
    IF mode = "consteval" THEN BlockIndexScan(blocks, 0, p)
    ELSE block_index_runtime(p)

\* the loop of the older block_index at compile time: walk the blocks,
\* counting, until the block at p or past p; the result is the count
RECURSIVE BlockIndexScanOlder(_, _, _)
BlockIndexScanOlder(it, idx, p) ==
    IF it <= p /\ it # p
    THEN BlockIndexScanOlder(it + sizeof_block_type,
                             (idx + 1) % (block_index_type_max + 1), p)
    ELSE idx

\* block_index of the older chunk_resource_runtime: at compile time the
\* assertion after the loop is idx < m_available_blocks; at run time the
\* assertions are diff >= 0 and diff > max of block_index_type.
\* Result: [failed, idx].
block_index_older(p) ==
    IF mode = "consteval"
    THEN LET idx == BlockIndexScanOlder(blocks, 0, p)
         IN  [failed |-> ~(idx < m_available_blocks), idx |-> idx]
    ELSE LET diff == (p - blocks) \div sizeof_block_type
         IN  IF ~(diff >= 0) \/ ~(diff > block_index_type_max)
             THEN [failed |-> TRUE, idx |-> 0]
             ELSE [failed |-> FALSE, idx |-> diff % (block_index_type_max + 1)]

\* variant: the search starts at stack_cbegin(), not at the midpoint
StackFind_from_begin(idx) ==
    LET hits == {t \in 0..(s_options.block_count - 1) :
                    m_block_index_stack[t] = idx}
    IN  IF hits = {} THEN s_options.block_count
        ELSE CHOOSE t \in hits : \A u \in hits : t <= u

\* std::find(stack_cmidpoint(), stack_cend(), idx): first position, or N
StackFind(idx) ==
    LET hits == {t \in m_available_blocks..(s_options.block_count - 1) :
                    m_block_index_stack[t] = idx}
    IN  IF hits = {} THEN s_options.block_count
        ELSE CHOOSE t \in hits : \A u \in hits : t <= u

\* is_allocated: [failed, token]; token is -1 when the block is not allocated
is_allocated(p) ==
    LET bi == block_index(p)
    IN  IF bi.failed THEN [failed |-> TRUE, token |-> -1]
        ELSE LET it == StackFind(bi.idx)
             IN  IF it = s_options.block_count
                 THEN [failed |-> FALSE, token |-> -1]
                 ELSE [failed |-> FALSE, token |-> it]

\* variant: the top of the stack is read but not popped
obtain_ptr_unchecked_no_pop ==
    IF ~(m_available_blocks > 0)
    THEN [failed |-> TRUE, ptr |-> nullptr, avail |-> m_available_blocks]
    ELSE LET idx == m_block_index_stack[m_available_blocks - 1]
         IN  [failed |-> FALSE, ptr |-> BlockAddr(idx),
              avail |-> m_available_blocks]

\* variant: the index is read from the bottom of the stack, not from its top
obtain_ptr_unchecked_from_bottom ==
    IF ~(m_available_blocks > 0)
    THEN [failed |-> TRUE, ptr |-> nullptr, avail |-> m_available_blocks]
    ELSE LET idx == m_block_index_stack[0]
         IN  [failed |-> FALSE, ptr |-> BlockAddr(idx),
              avail |-> m_available_blocks - 1]

\* obtain_ptr_unchecked: [failed, ptr, avail]
obtain_ptr_unchecked ==
    IF ~(m_available_blocks > 0)
    THEN [failed |-> TRUE, ptr |-> nullptr, avail |-> m_available_blocks]
    ELSE LET idx == m_block_index_stack[m_available_blocks - 1]
         IN  [failed |-> FALSE, ptr |-> BlockAddr(idx),
              avail |-> m_available_blocks - 1]

\* variant: the returned index is copied to the midpoint, not swapped with it
return_block_unchecked_no_swap(index_index) ==
    IF ~(index_index < s_options.block_count) \/ ~(index_index >= 0)
       \/ ~(index_index >= m_available_blocks)
    THEN [failed |-> TRUE, avail |-> m_available_blocks,
          stack |-> m_block_index_stack]
    ELSE [failed |-> FALSE, avail |-> m_available_blocks + 1,
          stack |-> [m_block_index_stack EXCEPT
                        ![m_available_blocks] = m_block_index_stack[index_index]]]

\* variant: the swap is done but m_available_blocks is not incremented
return_block_unchecked_no_count(index_index) ==
    IF ~(index_index < s_options.block_count) \/ ~(index_index >= 0)
       \/ ~(index_index >= m_available_blocks)
    THEN [failed |-> TRUE, avail |-> m_available_blocks,
          stack |-> m_block_index_stack]
    ELSE [failed |-> FALSE, avail |-> m_available_blocks,
          stack |-> [m_block_index_stack EXCEPT
                        ![index_index] = m_block_index_stack[m_available_blocks],
                        ![m_available_blocks] = m_block_index_stack[index_index]]]

\* variant: m_available_blocks is incremented without the swap
return_block_unchecked_count_only(index_index) ==
    IF ~(index_index < s_options.block_count) \/ ~(index_index >= 0)
       \/ ~(index_index >= m_available_blocks)
    THEN [failed |-> TRUE, avail |-> m_available_blocks,
          stack |-> m_block_index_stack]
    ELSE [failed |-> FALSE, avail |-> m_available_blocks + 1,
          stack |-> m_block_index_stack]

\* variant: the returned index is moved to the midpoint and the indices in
\* between are shifted up by one place, keeping their order
return_block_unchecked_keeping_order(index_index) ==
    IF ~(index_index < s_options.block_count) \/ ~(index_index >= 0)
       \/ ~(index_index >= m_available_blocks)
    THEN [failed |-> TRUE, avail |-> m_available_blocks,
          stack |-> m_block_index_stack]
    ELSE [failed |-> FALSE, avail |-> m_available_blocks + 1,
          stack |-> [t \in DOMAIN m_block_index_stack |->
                        IF t = m_available_blocks
                        THEN m_block_index_stack[index_index]
                        ELSE IF t > m_available_blocks /\ t <= index_index
                        THEN m_block_index_stack[t - 1]
                        ELSE m_block_index_stack[t]]]

\* variant: the returned index is swapped with the first element of the stack
\* instead of the one at the midpoint
return_block_unchecked_swap_begin(index_index) ==
    IF ~(index_index < s_options.block_count) \/ ~(index_index >= 0)
       \/ ~(index_index >= m_available_blocks)
    THEN [failed |-> TRUE, avail |-> m_available_blocks,
          stack |-> m_block_index_stack]
    ELSE [failed |-> FALSE, avail |-> m_available_blocks + 1,
          stack |-> [m_block_index_stack EXCEPT
                        ![index_index] = m_block_index_stack[0],
                        ![0] = m_block_index_stack[index_index]]]

\* variant: the last assertion only requires that some block is allocated,
\* not that index_index is at or above the midpoint
return_block_unchecked_no_stale_check(index_index) ==
    IF ~(index_index < s_options.block_count) \/ ~(index_index >= 0)
       \/ ~(m_available_blocks < s_options.block_count)
    THEN [failed |-> TRUE, avail |-> m_available_blocks,
          stack |-> m_block_index_stack]
    ELSE [failed |-> FALSE, avail |-> m_available_blocks + 1,
          stack |-> [m_block_index_stack EXCEPT
                        ![index_index] = m_block_index_stack[m_available_blocks],
                        ![m_available_blocks] = m_block_index_stack[index_index]]]

\* variant: the returned index is swapped with the last element of the stack
\* instead of the one at the midpoint
return_block_unchecked_swap_last(index_index) ==
    IF ~(index_index < s_options.block_count) \/ ~(index_index >= 0)
       \/ ~(index_index >= m_available_blocks)
    THEN [failed |-> TRUE, avail |-> m_available_blocks,
          stack |-> m_block_index_stack]
    ELSE [failed |-> FALSE, avail |-> m_available_blocks + 1,
          stack |-> [m_block_index_stack EXCEPT
                        ![index_index] = m_block_index_stack[s_options.block_count - 1],
                        ![s_options.block_count - 1] = m_block_index_stack[index_index]]]

\* return_block_unchecked: [failed, avail, stack]
return_block_unchecked(index_index) ==
    IF ~(index_index < s_options.block_count) \/ ~(index_index >= 0)
       \/ ~(index_index >= m_available_blocks)
    THEN [failed |-> TRUE, avail |-> m_available_blocks,
          stack |-> m_block_index_stack]
    ELSE [failed |-> FALSE, avail |-> m_available_blocks + 1,
          stack |-> [m_block_index_stack EXCEPT
                        ![index_index] = m_block_index_stack[m_available_blocks],
                        ![m_available_blocks] = m_block_index_stack[index_index]]]

\* ---------------------------------------------------------------------------
\* _impl::chunk_resource_consteval and its dyn_array<alloc_info>
\* ---------------------------------------------------------------------------

\* first address the host allocator (std::allocator<T>) hands out; its
\* storage never overlaps the pool or the zero block
HeapBase == TwoToW

\* std::allocator<T>().allocate(n) during constant evaluation: a pointer to
\* storage distinct from every live allocation
HostAllocate ==
    CHOOSE a \in HeapBase..(HeapBase + Len(m_ptrs)) :
        /\ \A i \in 1..Len(m_ptrs) : m_ptrs[i].p # a
        /\ \A b \in HeapBase..(a - 1) : \E i \in 1..Len(m_ptrs) : m_ptrs[i].p = b

\* m_ptrs.size()
allocation_count == Len(m_ptrs)

\* linear search of the registry by pointer
is_maybe_allocated(p) == \E i \in 1..Len(m_ptrs) : m_ptrs[i].p = p

\* variant: the registry is searched by pointer alone
consteval_is_allocated_by_pointer(p, n) ==
    LET hits == {i \in 1..Len(m_ptrs) : m_ptrs[i].p = p}
    IN  IF hits = {} THEN -1
        ELSE (CHOOSE i \in hits : \A j \in hits : i <= j) - 1

\* std::find over m_ptrs for {p, n}: position from 0, or -1
consteval_is_allocated(p, n) ==
    LET hits == {i \in 1..Len(m_ptrs) : m_ptrs[i] = [p |-> p, n |-> n]}
    IN  IF hits = {} THEN -1
        ELSE (CHOOSE i \in hits : \A j \in hits : i <= j) - 1

\* dyn_array::grow_if_needed_by(1) followed by reserve(new_cap): the capacity after
grow_if_needed_by_1 ==
    LET want    == Len(m_ptrs) + 1
        new_cap == IF want < PAGE_SIZE THEN bit_ceil(want)
                   ELSE want + (PAGE_SIZE - (want % PAGE_SIZE))
    IN  IF new_cap > m_cap THEN new_cap ELSE m_cap

\* chunk_resource_consteval::obtain_ptr_unchecked<T>(n): [ptr, ptrs, cap]
consteval_obtain_ptr_unchecked(n) ==
    LET ptr == HostAllocate
    IN  [ptr  |-> ptr,
         ptrs |-> Append(m_ptrs, [p |-> ptr, n |-> n]),
         cap  |-> grow_if_needed_by_1]

\* variant: the last element is dropped, whatever pos is
erase_pop_back(s, pos) == SubSeq(s, 1, Len(s) - 1)

\* dyn_array::erase(pos): shift the tail left by one
erase(s, pos) == SubSeq(s, 1, pos) \o SubSeq(s, pos + 2, Len(s))

\* chunk_resource_consteval::return_ptr_unchecked(ptr, n, pos): [failed, ptrs, cap]
consteval_return_ptr_unchecked(ptr, n, pos) ==
    IF \/ ~(pos # -1) \/ ~(pos >= 0)
       \/ ~(pos < m_cap) \/ ~(pos < Len(m_ptrs))
    THEN [failed |-> TRUE, ptrs |-> m_ptrs, cap |-> m_cap]
    ELSE IF ~(ptr = m_ptrs[pos + 1].p) \/ ~(n = m_ptrs[pos + 1].n)
    THEN [failed |-> TRUE, ptrs |-> m_ptrs, cap |-> m_cap]
    ELSE [failed |-> FALSE,
          ptrs |-> erase(m_ptrs, pos),
          cap  |-> m_cap]

\* ---------------------------------------------------------------------------
\* chunk_resource (the facade)
\* ---------------------------------------------------------------------------

\* Outcome of a call: kind is "ptr" (returned ptr), "throw" (raised err),
\* "assert" (failed the assertion err) or "void"; the rest is the pool after.
Outcome(kind, err, ptr, avail, stack, ptrs, cap) ==
    [kind |-> kind, err |-> err, ptr |-> ptr,
     avail |-> avail, stack |-> stack, ptrs |-> ptrs, cap |-> cap]

Throw(err) ==
    Outcome("throw", err, nullptr, m_available_blocks, m_block_index_stack, m_ptrs, m_cap)

AssertFail(msg) ==
    Outcome("assert", msg, nullptr, m_available_blocks, m_block_index_stack, m_ptrs, m_cap)

Return(ptr) ==
    Outcome("ptr", "none", ptr, m_available_blocks, m_block_index_stack, m_ptrs, m_cap)

ReturnVoid ==
    Outcome("void", "none", nullptr, m_available_blocks, m_block_index_stack, m_ptrs, m_cap)

\* the call m_runtime.obtain_ptr_unchecked() and the return of its result
ObtainFromRuntime ==
    LET r == obtain_ptr_unchecked
    IN  IF r.failed THEN AssertFail("no blocks available")
        ELSE Outcome("ptr", "none", r.ptr, r.avail, m_block_index_stack, m_ptrs, m_cap)

\* the call m_consteval.obtain_ptr_unchecked<T>(n) and the return of its result
ObtainFromConsteval(n) ==
    LET r == consteval_obtain_ptr_unchecked(n)
    IN  Outcome("ptr", "none", r.ptr, m_available_blocks, m_block_index_stack,
                r.ptrs, r.cap)

\* variant: only the overflow of std::size_t is checked
check_no_overflow_size_only(n, sz) ==
    IF n = 0 \/ sz = 0 THEN TRUE ELSE ~(sz > (umax \div n))

check_no_overflow(n, sz) ==
    IF n = 0 \/ sz = 0 THEN TRUE ELSE valid_sizeof(sz, n)

available_blocks ==
    LET count == IF mode = "consteval"
                 THEN m_available_blocks - allocation_count
                 ELSE m_available_blocks
    IN  ToSizeT(count)

maybe_owns(p) ==
    IF mode = "consteval" THEN is_maybe_allocated(p) \/ is_maybe_owned(p)
    ELSE is_maybe_owned(p)

\* variant: the availability check does not exempt n = 0
allocate_bytes_oom_on_zero(n) ==
    IF n > s_options.block_size THEN Throw("unsupported_size")
    ELSE IF available_blocks = 0 THEN Throw("out_of_memory")
    ELSE IF n = 0 THEN Return(zero)
    ELSE ObtainFromRuntime

\* variant: the last block is never handed out
allocate_bytes_keeps_one(n) ==
    IF n > s_options.block_size THEN Throw("unsupported_size")
    ELSE IF n # 0 /\ available_blocks <= 1 THEN Throw("out_of_memory")
    ELSE IF n = 0 THEN Return(zero)
    ELSE ObtainFromRuntime

\* allocate_bytes(size_type n)
allocate_bytes(n) ==
    IF n > s_options.block_size THEN Throw("unsupported_size")
    ELSE IF n # 0 /\ available_blocks = 0 THEN Throw("out_of_memory")
    ELSE IF n = 0 THEN Return(zero)
    ELSE ObtainFromRuntime

\* variant: the supported-align check comes before the power-of-two check
allocate_bytes_align_support_first(n, a) ==
    IF a > s_options.block_align THEN Throw("unsupported_align")
    ELSE IF ~has_single_bit(a) THEN Throw("invalid_align")
    ELSE IF n > s_options.block_size THEN Throw("unsupported_size")
    ELSE IF n # 0 /\ available_blocks = 0 THEN Throw("out_of_memory")
    ELSE IF n = 0 THEN Return(zero)
    ELSE ObtainFromRuntime

\* allocate_bytes(size_type n, align_type align)
allocate_bytes_align(n, a) ==
    IF ~has_single_bit(a) THEN Throw("invalid_align")
    ELSE IF a > s_options.block_align THEN Throw("unsupported_align")
    ELSE allocate_bytes(n)

\* variant: the block is taken before the size is checked
allocate_bytes_nothrow_obtain_first(n) ==
    IF n # 0 /\ available_blocks = 0 THEN Return(nullptr)
    ELSE IF n = 0 THEN Return(zero)
    ELSE LET r == ObtainFromRuntime
         IN  IF n > s_options.block_size /\ r.kind = "ptr"
             THEN [r EXCEPT !.ptr = nullptr]
             ELSE r

\* allocate_bytes(size_type n, const std::nothrow_t&)
allocate_bytes_nothrow(n) ==
    IF (n > s_options.block_size) \/ (n # 0 /\ available_blocks = 0)
    THEN Return(nullptr)
    ELSE IF n = 0 THEN Return(zero)
    ELSE ObtainFromRuntime

\* allocate_bytes(size_type n, align_type align, const std::nothrow_t&)
allocate_bytes_align_nothrow(n, a) ==
    IF (~has_single_bit(a)) \/ (a > s_options.block_align) THEN Return(nullptr)
    ELSE allocate_bytes_nothrow(n)

\* variant: the success branch takes a block of the run-time pool in both modes
ObtainObject_runtime_only(n) ==
    IF n = 0 THEN Return(zero) ELSE ObtainFromRuntime

\* the success branch shared by the allocate_object overloads
ObtainObject(n) ==
    IF mode = "consteval" THEN ObtainFromConsteval(n)
    ELSE IF n = 0 THEN Return(zero)
    ELSE ObtainFromRuntime

\* variant: the availability of a block is not checked
allocate_object_no_availability_check(T, n) ==
    LET size == ToSizeT(n * T.size)
    IN  IF ~check_no_overflow(n, T.size) THEN Throw("array_length")
        ELSE IF T.align > s_options.block_align THEN Throw("unsupported_align")
        ELSE IF size > s_options.block_size THEN Throw("unsupported_size")
        ELSE ObtainObject(n)

\* allocate_object<T>(size_type n); T is [size |-> sizeof(T), align |-> alignof(T)]
allocate_object(T, n) ==
    LET size == ToSizeT(n * T.size)
    IN  IF ~check_no_overflow(n, T.size) THEN Throw("array_length")
        ELSE IF T.align > s_options.block_align THEN Throw("unsupported_align")
        ELSE IF size > s_options.block_size THEN Throw("unsupported_size")
        ELSE IF n # 0 /\ available_blocks = 0 THEN Throw("out_of_memory")
        ELSE ObtainObject(n)

\* variant: the explicit align stands in for alignof(T)
allocate_object_align_replaces(T, n, a) ==
    IF ~has_single_bit(a) THEN Throw("invalid_align")
    ELSE IF a > s_options.block_align THEN Throw("unsupported_align")
    ELSE allocate_object([size |-> T.size, align |-> a], n)

\* allocate_object<T>(size_type n, align_type align)
allocate_object_align(T, n, a) ==
    IF ~has_single_bit(a) THEN Throw("invalid_align")
    ELSE IF a > s_options.block_align THEN Throw("unsupported_align")
    ELSE allocate_object(T, n)

\* variant: n * sizeof(T) is not checked for overflow
allocate_object_nothrow_unchecked_length(T, n) ==
    IF \/ T.align > s_options.block_align
       \/ ToSizeT(n * T.size) > s_options.block_size
       \/ (n # 0 /\ available_blocks = 0)
    THEN Return(nullptr)
    ELSE ObtainObject(n)

\* allocate_object<T>(size_type n, const std::nothrow_t&)
allocate_object_nothrow(T, n) ==
    IF \/ ~check_no_overflow(n, T.size)
       \/ T.align > s_options.block_align
       \/ ToSizeT(n * T.size) > s_options.block_size
       \/ (n # 0 /\ available_blocks = 0)
    THEN Return(nullptr)
    ELSE ObtainObject(n)

\* allocate_object<T>(size_type n, align_type align, const std::nothrow_t&)
allocate_object_align_nothrow(T, n, a) ==
    IF ~has_single_bit(a) \/ a > s_options.block_align THEN Return(nullptr)
    ELSE allocate_object_nothrow(T, n)

\* variant: the 'double free' assertion is missing
ReturnToRuntime_no_double_free_check(ptr) ==
    IF ~is_owned(ptr) THEN AssertFail("invalid pointer")
    ELSE LET ia == is_allocated(ptr)
         IN  IF ia.failed THEN AssertFail("is_owned(ptr) not satisfied")
             ELSE LET r == return_block_unchecked(ia.token)
                  IN  IF r.failed THEN AssertFail("token")
                      ELSE Outcome("void", "none", nullptr, r.avail, r.stack,
                                   m_ptrs, m_cap)

\* the check-and-return on the runtime pool shared by both deallocate functions
ReturnToRuntime(ptr) ==
    IF ~is_owned(ptr) THEN AssertFail("invalid pointer")
    ELSE LET ia == is_allocated(ptr)
         IN  IF ia.failed THEN AssertFail("is_owned(ptr) not satisfied")
             ELSE IF ~(ia.token # -1) THEN AssertFail("double free")
             ELSE LET r == return_block_unchecked(ia.token)
                  IN  IF r.failed THEN AssertFail("token")
                      ELSE Outcome("void", "none", nullptr, r.avail, r.stack,
                                   m_ptrs, m_cap)

\* deallocate_bytes(void *ptr, size_type n)
deallocate_bytes(ptr, n) ==
    IF ptr = nullptr \/ ptr = zero THEN ReturnVoid
    ELSE ReturnToRuntime(ptr)

\* deallocate_object<T>(T *ptr, size_type n)
deallocate_object(ptr, n) ==
    IF ptr = nullptr THEN ReturnVoid
    ELSE IF mode = "consteval"
    THEN IF ~is_maybe_allocated(ptr) THEN AssertFail("invalid pointer")
         ELSE IF ~(consteval_is_allocated(ptr, n) # -1) THEN AssertFail("invalid size")
         ELSE LET token == consteval_is_allocated(ptr, n)
                  r     == consteval_return_ptr_unchecked(ptr, n, token)
              IN  IF r.failed THEN AssertFail("token")
                  ELSE Outcome("void", "none", nullptr, m_available_blocks,
                               m_block_index_stack, r.ptrs, r.cap)
    ELSE IF ptr = zero THEN ReturnVoid
    ELSE ReturnToRuntime(ptr)

\* defrag()
defrag ==
    Outcome("void", "none", nullptr, m_available_blocks,
            rsort_available_indexes, m_ptrs, m_cap)

\* defrag_optimistic()
defrag_optimistic ==
    Outcome("void", "none", nullptr, m_available_blocks,
            rsort_optimistic_available_indexes, m_ptrs, m_cap)

\* ---------------------------------------------------------------------------
\* Arguments the model calls the facade with
\* ---------------------------------------------------------------------------

\* larger than every block_size, resp. block_align, the bounds allow
OverSize  == MaxBlockSize + Pow2(MaxAlignLog)
OverAlign == Pow2(MaxAlignLog + 2)

ByteSizes    == {0, 1, OverSize}
Aligns       == {1, 3, OverAlign}
Types        == {[size |-> 1, align |-> 1], [size |-> 2, align |-> 2],
                 [size |-> OverAlign, align |-> OverAlign]}
ObjCounts    == {0, 1, OverSize, Pow2(SizeBits - 1)}
ReturnCounts == {0, 1}

TestPtrs ==
    {nullptr, zero, blocks - 1, BlockAddr(s_options.block_count)}
        \cup {BlockAddr(i) : i \in 0..(s_options.block_count - 1)}
        \cup {blocks + 1}
        \cup {HeapBase + k : k \in 0..MaxPtrs}

\* ---------------------------------------------------------------------------
\* Initial state: a default-constructed chunk_resource<Opts>
\* ---------------------------------------------------------------------------
Init ==
    /\ mode \in {"runtime", "consteval"}
    /\ Opts \in OptsSet
    /\ mode = "consteval" => Opts \in ConstevalOptsSet
    /\ s_options = normalized(Opts)
    /\ blocks = s_options.block_align
    /\ zero = blocks + s_options.block_count * sizeof_block_type
    /\ m_available_blocks = s_options.block_count
    /\ m_block_index_stack = InitialStack(s_options.block_count)
    /\ m_ptrs = << >>
    /\ m_cap = 0
    /\ outstanding = {}
    /\ fresh_allocs = 0
    /\ last = [op |-> "construct", kind |-> "void", ptr |-> nullptr]
    /\ aborted = FALSE
    /\ lifo_order = IF mode = "runtime" THEN << >> ELSE LifoBroken

\* ---------------------------------------------------------------------------
\* Actions: one per member function of the facade
\* ---------------------------------------------------------------------------

\* the pool after a call with outcome r; ptr is the pointer the call returned,
\* or for a deallocation the pointer it was given; a call that fails an
\* assertion does not return; a call that returns and leaves the pool as it
\* was (a refused request, a zero-size request, a null or sentinel pointer
\* given back) leaves no trace in the history
Apply(op, ptr, r) ==
    /\ ~aborted
    /\ Len(r.ptrs) <= MaxPtrs
    /\ m_available_blocks' = r.avail
    /\ m_block_index_stack' = r.stack
    /\ m_ptrs' = r.ptrs
    /\ m_cap' = r.cap
    /\ aborted' = (r.kind = "assert")
    /\ last' = IF /\ r.kind # "assert"
                    /\ r.avail = m_available_blocks
                    /\ r.stack = m_block_index_stack
                    /\ r.ptrs = m_ptrs
                    /\ r.cap = m_cap
                 THEN last
                 ELSE [op |-> op, kind |-> r.kind,
                       ptr |-> IF r.kind = "assert" THEN nullptr ELSE ptr]
    /\ UNCHANGED <<mode, Opts, s_options, blocks, zero>>

\* bookkeeping of an allocation call
ApplyAlloc(op, n, r) ==
    /\ Apply(op, r.ptr, r)
    /\ LET handed == r.kind = "ptr" /\ r.ptr # nullptr /\ n # 0
       IN  /\ outstanding' = IF handed THEN outstanding \cup {r.ptr} ELSE outstanding
           /\ fresh_allocs' = IF handed /\ fresh_allocs >= 0
                              THEN fresh_allocs + 1 ELSE fresh_allocs
           /\ lifo_order' = IF handed /\ lifo_order # LifoBroken
                            THEN Append(lifo_order, r.ptr) ELSE lifo_order

\* bookkeeping of a deallocation call
ApplyDealloc(op, ptr, n, r) ==
    /\ Apply(op, ptr, r)
    /\ LET returned == r.kind = "void" /\ ptr # nullptr /\ ptr # zero
       IN  /\ outstanding' = IF returned THEN outstanding \ {ptr} ELSE outstanding
           /\ fresh_allocs' = IF returned THEN -1 ELSE fresh_allocs
           /\ lifo_order' = IF ~returned \/ lifo_order = LifoBroken THEN lifo_order
                            ELSE IF lifo_order # << >> /\ lifo_order[Len(lifo_order)] = ptr
                            THEN SubSeq(lifo_order, 1, Len(lifo_order) - 1)
                            ELSE LifoBroken

AllocateBytes ==
    \E n \in ByteSizes : ApplyAlloc("allocate_bytes", n, allocate_bytes(n))

AllocateBytesAlign ==
    \E n \in {0, 1}, a \in Aligns :
        ApplyAlloc("allocate_bytes", n, allocate_bytes_align(n, a))

AllocateBytesNothrow ==
    \E n \in ByteSizes :
        ApplyAlloc("allocate_bytes", n, allocate_bytes_nothrow(n))

AllocateBytesAlignNothrow ==
    \E n \in {0, 1}, a \in Aligns :
        ApplyAlloc("allocate_bytes", n,
                   allocate_bytes_align_nothrow(n, a))

AllocateObject ==
    \E T \in Types, n \in ObjCounts :
        ApplyAlloc("allocate_object", n, allocate_object(T, n))

AllocateObjectAlign ==
    \E T \in Types, n \in {0, 1}, a \in {1, 3} :
        ApplyAlloc("allocate_object", n, allocate_object_align(T, n, a))

AllocateObjectNothrow ==
    \E T \in Types, n \in ObjCounts :
        ApplyAlloc("allocate_object", n, allocate_object_nothrow(T, n))

AllocateObjectAlignNothrow ==
    \E T \in Types, n \in {0, 1}, a \in {1, 3} :
        ApplyAlloc("allocate_object", n,
                   allocate_object_align_nothrow(T, n, a))

DeallocateBytes ==
    \E ptr \in TestPtrs, n \in {1} :
        ApplyDealloc("deallocate_bytes", ptr, n, deallocate_bytes(ptr, n))

DeallocateObject ==
    \E ptr \in TestPtrs, n \in ReturnCounts :
        ApplyDealloc("deallocate_object", ptr, n, deallocate_object(ptr, n))

Defrag ==
    /\ Apply("defrag", nullptr, defrag)
    /\ UNCHANGED <<outstanding, fresh_allocs, lifo_order>>

DefragOptimistic ==
    /\ Apply("defrag_optimistic", nullptr, defrag_optimistic)
    /\ UNCHANGED <<outstanding, fresh_allocs, lifo_order>>

Next ==
    \/ AllocateBytes
    \/ AllocateBytesAlign
    \/ AllocateBytesNothrow
    \/ AllocateBytesAlignNothrow
    \/ AllocateObject
    \/ AllocateObjectAlign
    \/ AllocateObjectNothrow
    \/ AllocateObjectAlignNothrow
    \/ DeallocateBytes
    \/ DeallocateObject
    \/ Defrag
    \/ DefragOptimistic

Spec == Init /\ [][Next]_vars

\* run-time evaluation only, and constant evaluation only
InitRuntime == Init /\ mode = "runtime"
InitConsteval == Init /\ mode = "consteval"
SpecRuntime == InitRuntime /\ [][Next]_vars
SpecConsteval == InitConsteval /\ [][Next]_vars

\* ---------------------------------------------------------------------------
\* Properties
\* ---------------------------------------------------------------------------

\* the block indices in the free prefix and in the allocated suffix of the stack
FreeIndices == {m_block_index_stack[t] : t \in 0..(m_available_blocks - 1)}
AllocatedIndices ==
    {m_block_index_stack[t] : t \in m_available_blocks..(s_options.block_count - 1)}

\* C1: on a run-time pool the index stack is always a permutation of
\* 0..N-1, m_available_blocks lies in 0..N, and the free prefix and the
\* allocated suffix hold disjoint sets of indices.
C1_StackIsPermutation ==
    /\ DOMAIN m_block_index_stack = 0..(N - 1)
    /\ \A i \in 0..(N - 1) :
           Cardinality({t \in 0..(N - 1) : m_block_index_stack[t] = i}) = 1
    /\ m_available_blocks \in 0..N
    /\ FreeIndices \cap AllocatedIndices = {}
    /\ FreeIndices \cup AllocatedIndices = 0..(N - 1)

\* a block was returned out of allocation order and the free prefix sorted since
C1_Witness ==
    /\ mode = "runtime"
    /\ last.op = "defrag"
    /\ fresh_allocs = -1
    /\ outstanding # {}
    /\ m_available_blocks >= 2
    /\ \E t \in m_available_blocks..(N - 1) : m_block_index_stack[t] < m_block_index_stack[0]

\* C2: a successful non-zero allocation never returns a pointer that is
\* still outstanding, so no two outstanding allocations share a pointer.
C2_NoPointerHandedOutTwice ==
    [][(/\ last'.op \in {"allocate_bytes", "allocate_object"}
        /\ last'.kind = "ptr"
        /\ last'.ptr # nullptr
        /\ last'.ptr # zero)
       => (/\ last'.ptr \notin outstanding
           /\ \A i \in 1..Len(m_ptrs) : m_ptrs[i].p # last'.ptr)]_vars

\* a block was returned, and a later allocation added to other outstanding ones
C2_Witness ==
    /\ last.op \in {"allocate_bytes", "allocate_object"}
    /\ last.kind = "ptr"
    /\ last.ptr \in outstanding
    /\ Cardinality(outstanding) >= 2
    /\ fresh_allocs = -1

\* C3: on a run-time pool available_blocks() plus the number of outstanding
\* non-zero allocations is N; a successful non-zero allocation lowers
\* available_blocks() by exactly 1 and a successful deallocation of a block
\* pointer raises it by exactly 1.
C3_Counting ==
    /\ [](available_blocks + Cardinality(outstanding) = N)
    /\ [][/\ (/\ last'.op \in {"allocate_bytes", "allocate_object"}
              /\ last'.kind = "ptr"
              /\ last'.ptr # nullptr
              /\ last'.ptr # zero)
             => available_blocks' = available_blocks - 1
          /\ (/\ last'.op \in {"deallocate_bytes", "deallocate_object"}
              /\ last'.kind = "void"
              /\ last'.ptr # nullptr
              /\ last'.ptr # zero)
             => available_blocks' = available_blocks + 1]_vars

\* a block pointer was just returned while another allocation is outstanding
C3_Witness ==
    /\ mode = "runtime"
    /\ last.op \in {"deallocate_bytes", "deallocate_object"}
    /\ last.kind = "void"
    /\ last.ptr \notin {nullptr, zero}
    /\ Cardinality(outstanding) = 1
    /\ available_blocks = N - 1

\* C4: in both evaluation modes available_blocks() never exceeds N and the
\* number of outstanding non-zero allocations never exceeds N.
C4_NoGrowth ==
    /\ available_blocks <= N
    /\ Cardinality(outstanding) <= N

\* C5: on a run-time pool every outstanding pointer p satisfies is_owned(p)
\* and is_allocated(p) is a token t with m_available_blocks <= t < N and
\* index_stack[t] = block_index(p); for the start of a free block
\* is_allocated is -1.
C5_OwnershipTokens ==
    /\ \A p \in outstanding :
           /\ is_owned(p)
           /\ ~is_allocated(p).failed
           /\ is_allocated(p).token >= m_available_blocks
           /\ is_allocated(p).token < N
           /\ ~block_index(p).failed
           /\ m_block_index_stack[is_allocated(p).token] = block_index(p).idx
    /\ \A i \in FreeIndices :
           /\ ~is_allocated(BlockAddr(i)).failed
           /\ is_allocated(BlockAddr(i)).token = -1

\* after a deallocation, with blocks both outstanding and free, one of the
\* outstanding ones not at the position its index had in the fresh stack
C5_Witness ==
    /\ mode = "runtime"
    /\ fresh_allocs = -1
    /\ outstanding # {}
    /\ m_available_blocks > 0
    /\ \E p \in outstanding :
           is_allocated(p).token # N - 1 - block_index(p).idx

\* C6: every pointer a successful non-zero run-time allocation returned is
\* blocks + i * block_size for some block index i in 0..N-1 and is
\* divisible by block_align, block_align dividing block_size and the
\* address of the array.
C6_BlockAlignment ==
    /\ s_options.block_size % s_options.block_align = 0
    /\ blocks % s_options.block_align = 0
    /\ \A p \in outstanding :
           /\ \E i \in 0..(N - 1) : p = blocks + i * s_options.block_size
           /\ p % s_options.block_align = 0

\* a block other than block 0 is outstanding in a pool aligned to more than 1
C6_Witness ==
    /\ mode = "runtime"
    /\ s_options.block_align > 1
    /\ Opts.block_size # s_options.block_size
    /\ \E p \in outstanding : p # blocks

\* every size a request can carry within the bounds, and every align that is
\* a power of two or one of the smallest that is not
AllSizes == 0..OverSize
AllAligns == {a \in 0..OverAlign : a <= 3 \/ has_single_bit(a)}

\* the block array lies in [blocks, blocks + N * sizeof(block_type))
InBlockArray(p) == p >= blocks /\ p < BlockAddr(s_options.block_count)

\* C7 (as amended): every zero-byte allocation whose alignment the pool
\* supports (allocate_bytes(0) in any overload with a power-of-two align
\* <= block_align, run-time allocate_object<T>(0) with alignof(T) and align
\* <= block_align) returns the sentinel and leaves the pool unchanged, also
\* when the pool is exhausted; the sentinel lies outside the block array,
\* maybe_owns(sentinel) is false and deallocate_bytes(sentinel, n) changes
\* nothing.
C7_ZeroIsShared ==
    /\ allocate_bytes(0) = Return(zero)
    /\ allocate_bytes_nothrow(0) = Return(zero)
    /\ \A a \in AllAligns :
           (has_single_bit(a) /\ a <= s_options.block_align)
           => /\ allocate_bytes_align(0, a) = Return(zero)
              /\ allocate_bytes_align_nothrow(0, a) = Return(zero)
    /\ mode = "runtime"
       => \A T \in Types :
              T.align <= s_options.block_align
              => /\ allocate_object(T, 0) = Return(zero)
                 /\ allocate_object_nothrow(T, 0) = Return(zero)
                 /\ \A a \in AllAligns :
                        (has_single_bit(a) /\ a <= s_options.block_align)
                        => /\ allocate_object_align(T, 0, a) = Return(zero)
                           /\ allocate_object_align_nothrow(T, 0, a) = Return(zero)
    /\ ~InBlockArray(zero)
    /\ ~maybe_owns(zero)
    /\ \A n \in AllSizes : deallocate_bytes(zero, n) = ReturnVoid

\* C7 as stated: every zero-byte allocation with a valid (power-of-two)
\* align, and every run-time allocate_object<T>(0), returns the sentinel.
C7_ZeroIsShared_AsStated ==
    /\ allocate_bytes(0) = Return(zero)
    /\ allocate_bytes_nothrow(0) = Return(zero)
    /\ \A a \in AllAligns :
           has_single_bit(a)
           => /\ allocate_bytes_align(0, a) = Return(zero)
              /\ allocate_bytes_align_nothrow(0, a) = Return(zero)
    /\ mode = "runtime"
       => \A T \in Types :
              /\ allocate_object(T, 0) = Return(zero)
              /\ allocate_object_nothrow(T, 0) = Return(zero)
    /\ ~InBlockArray(zero)
    /\ ~maybe_owns(zero)
    /\ \A n \in AllSizes : deallocate_bytes(zero, n) = ReturnVoid

\* on an exhausted pool, reached by N successful allocations, a zero-byte
\* allocation returns the sentinel and leaves the pool as it is
C7_Witness ==
    /\ mode = "runtime"
    /\ m_available_blocks = 0
    /\ Cardinality(outstanding) = N
    /\ last.op \in {"allocate_bytes", "allocate_object"}
    /\ last.kind = "ptr"
    /\ last.ptr \in outstanding
    /\ allocate_bytes(0) = Return(zero)
    /\ allocate_bytes_align(0, 1) = Return(zero)
    /\ allocate_bytes(1) = Throw("out_of_memory")

\* C8: allocate_bytes(n, align) reports the first failing condition of:
\* align not a power of two (invalid align), align > block_align
\* (unsupported align), n > block_size (unsupported size), n # 0 with
\* available_blocks() = 0 (out of memory); so an oversized request on an
\* exhausted pool reports unsupported size and an invalid align is reported
\* whatever n is.
C8_CheckOrder ==
    \A n \in AllSizes : \A a \in AllAligns :
        LET checks == << <<~has_single_bit(a), "invalid_align">>,
                         <<a > s_options.block_align, "unsupported_align">>,
                         <<n > s_options.block_size, "unsupported_size">>,
                         <<n # 0 /\ available_blocks = 0, "out_of_memory">> >>
            failing == {k \in 1..4 : checks[k][1]}
            first   == CHOOSE k \in failing : \A j \in failing : k <= j
            r       == allocate_bytes_align(n, a)
        IN  IF failing = {} THEN r.kind # "throw"
            ELSE r = Throw(checks[first][2])

\* an allocate_bytes call has just taken the last block; on the exhausted
\* pool an oversized request reports unsupported size, not out of memory,
\* and a request with an invalid align reports that whatever its size
C8_Witness ==
    /\ available_blocks = 0
    /\ m_available_blocks = 0
    /\ last.op = "allocate_bytes"
    /\ last.kind = "ptr"
    /\ allocate_bytes_align(1, 1) = Throw("out_of_memory")
    /\ allocate_bytes_align(OverSize, 1) = Throw("unsupported_size")
    /\ allocate_bytes_align(OverSize, 3) = Throw("invalid_align")
    /\ allocate_bytes_align(0, 3) = Throw("invalid_align")

\* C9: at run time allocate_bytes(n) with 0 < n <= block_size fails with
\* out of memory exactly when available_blocks() = 0, that is when all N
\* blocks are allocated, and succeeds otherwise; on a fresh pool exactly the
\* first N such requests succeed and the next one fails.
C9_OutOfMemory ==
    \A n \in 1..s_options.block_size :
        LET r == allocate_bytes(n)
        IN  /\ (r = Throw("out_of_memory")) <=> (available_blocks = 0)
            /\ (available_blocks = 0) <=> (Cardinality(outstanding) = N)
            /\ available_blocks # 0 => (r.kind = "ptr" /\ InBlockArray(r.ptr))
            /\ fresh_allocs >= 0
               => /\ fresh_allocs <= N
                  /\ (r.kind = "ptr") <=> (fresh_allocs < N)

\* on a pool of more than one block nothing was returned yet, the N-th
\* request has just succeeded and the next one throws
C9_Witness ==
    /\ mode = "runtime"
    /\ N >= 2
    /\ fresh_allocs = N
    /\ last.op = "allocate_bytes"
    /\ last.kind = "ptr"
    /\ last.ptr \in outstanding
    /\ allocate_bytes(1) = Throw("out_of_memory")

\* C10: in every pool state and for every argument tuple, a nothrow overload
\* of allocate_bytes or allocate_object returns null exactly when the
\* throwing overload with the same arguments raises, and otherwise returns
\* the same pointer and leaves the same pool state.
C10_NothrowEquivalence ==
    LET Same(t, nt) ==
            /\ nt = IF t.kind = "throw" THEN Return(nullptr) ELSE t
            /\ t.kind = "ptr" => t.ptr # nullptr
    IN  /\ \A n \in AllSizes :
               /\ Same(allocate_bytes(n), allocate_bytes_nothrow(n))
               /\ \A a \in AllAligns :
                      Same(allocate_bytes_align(n, a),
                           allocate_bytes_align_nothrow(n, a))
        /\ \A T \in Types : \A n \in ObjCounts :
               /\ Same(allocate_object(T, n), allocate_object_nothrow(T, n))
               /\ \A a \in Aligns :
                      Same(allocate_object_align(T, n, a),
                           allocate_object_align_nothrow(T, n, a))

\* after an allocate_object call that took a block, the throwing overloads
\* raise for some arguments, where the nothrow overloads return null, and
\* return a block for others, where the nothrow overloads return the same
C10_Witness ==
    /\ last.op = "allocate_object"
    /\ last.kind = "ptr"
    /\ last.ptr \in outstanding
    /\ allocate_bytes(1).kind = "ptr"
    /\ allocate_bytes_nothrow(1) = allocate_bytes(1)
    /\ allocate_object([size |-> 2, align |-> 2], Pow2(SizeBits - 1)) = Throw("array_length")
    /\ allocate_object_nothrow([size |-> 2, align |-> 2], Pow2(SizeBits - 1)) = Return(nullptr)

\* the start address of block i, counted in bytes of block_size
BlockStart(i) == blocks + i * s_options.block_size

\* every address from just above null to past the sentinel, and the host
\* allocator's addresses
AllPtrs == 1..(zero + sizeof_block_type) \cup {HeapBase + k : k \in 0..MaxPtrs}

\* C11: a block pointer that was deallocated and not handed out again is
\* refused by deallocate_bytes and deallocate_object with the 'double free'
\* assertion, whatever happened in between, and the pool is left unchanged.
C11_DoubleFree ==
    /\ \A i \in 0..(N - 1) :
           BlockStart(i) \notin outstanding
           => /\ \A n \in AllSizes :
                     deallocate_bytes(BlockStart(i), n) = AssertFail("double free")
              /\ \A n \in ReturnCounts :
                     deallocate_object(BlockStart(i), n) = AssertFail("double free")
    /\ (last.op \in {"deallocate_bytes", "deallocate_object"}
        /\ last.kind = "void" /\ last.ptr # nullptr /\ last.ptr # zero)
       => /\ \E i \in 0..(N - 1) : last.ptr = BlockStart(i)
          /\ deallocate_bytes(last.ptr, 1) = AssertFail("double free")

\* block p was deallocated, then another block was deallocated too; p is
\* free and a second deallocation of p is refused
C11_Witness ==
    /\ mode = "runtime"
    /\ last.op \in {"deallocate_bytes", "deallocate_object"}
    /\ last.kind = "void"
    /\ last.ptr \notin {nullptr, zero}
    /\ m_available_blocks >= 2
    /\ outstanding # {}
    /\ \E i \in FreeIndices :
           /\ BlockStart(i) # last.ptr
           /\ deallocate_bytes(BlockStart(i), 1) = AssertFail("double free")

\* C12: deallocate_bytes(p, n) with p non-null, not the sentinel and not
\* the start of one of the pool's blocks fails the 'invalid pointer'
\* assertion and leaves the pool unchanged; deallocate_bytes(null, n)
\* returns without effect.
C12_InvalidPointer ==
    \A n \in ReturnCounts :
        /\ deallocate_bytes(nullptr, n) = ReturnVoid
        /\ \A p \in AllPtrs :
               (p # zero /\ \A i \in 0..(N - 1) : p # BlockStart(i))
               => deallocate_bytes(p, n) = AssertFail("invalid pointer")

\* blocks are outstanding and free; the address inside an outstanding block
\* and an address past the sentinel are both refused
C12_Witness ==
    /\ mode = "runtime"
    /\ ~aborted
    /\ m_available_blocks > 0
    /\ \E p \in outstanding :
           /\ p + 1 \in AllPtrs
           /\ InBlockArray(p + 1)
           /\ p + 1 # BlockStart(0)
           /\ deallocate_bytes(p + 1, 1) = AssertFail("invalid pointer")
           /\ deallocate_bytes(BlockAddr(N) + 1, 1) = AssertFail("invalid pointer")

\* C13: in the state after a successful deallocation of block pointer p,
\* every successful non-zero allocation returns p.
C13_LastFreedFirst ==
    (/\ last.op \in {"deallocate_bytes", "deallocate_object"}
     /\ last.kind = "void"
     /\ last.ptr # nullptr
     /\ last.ptr # zero)
    => /\ \A n \in AllSizes \ {0} :
              /\ allocate_bytes(n).kind = "ptr" => allocate_bytes(n).ptr = last.ptr
              /\ allocate_bytes_nothrow(n).ptr # nullptr
                 => allocate_bytes_nothrow(n).ptr = last.ptr
       /\ \A T \in Types : \A n \in ObjCounts \ {0} :
              allocate_object(T, n).kind = "ptr"
              => allocate_object(T, n).ptr = last.ptr
       /\ allocate_bytes(1) = Outcome("ptr", "none", last.ptr, m_available_blocks - 1,
                                      m_block_index_stack, m_ptrs, m_cap)

\* a block that is not the one on top of a fresh stack was just deallocated
\* while other blocks are free and others outstanding
C13_Witness ==
    /\ mode = "runtime"
    /\ last.op \in {"deallocate_bytes", "deallocate_object"}
    /\ last.kind = "void"
    /\ last.ptr \notin {nullptr, zero}
    /\ outstanding # {}
    /\ m_available_blocks >= 2
    /\ \E i \in FreeIndices : BlockStart(i) < last.ptr
    /\ allocate_bytes(1).ptr = last.ptr

\* C14: a freshly constructed pool has m_available_blocks = N and
\* index_stack[i] = N-1-i; while nothing has been deallocated, the k-th
\* non-zero allocation (k = 0..N-1) returns block k, so the first N
\* allocations return distinct addresses consecutive by block_size.
C14_FreshPool ==
    /\ last.op = "construct"
       => /\ m_available_blocks = N
          /\ \A i \in 0..(N - 1) : m_block_index_stack[i] = N - 1 - i
    /\ fresh_allocs >= 0
       => /\ m_available_blocks = N - fresh_allocs
          /\ outstanding = {BlockStart(k) : k \in 0..(fresh_allocs - 1)}
          /\ fresh_allocs < N
             => /\ allocate_bytes(1).kind = "ptr"
                /\ allocate_bytes(1).ptr = BlockStart(fresh_allocs)
                /\ \A T \in Types :
                       allocate_object(T, 1).kind = "ptr"
                       => allocate_object(T, 1).ptr = BlockStart(fresh_allocs)

\* all N > 1 blocks of a fresh pool were handed out, block N-1 last
C14_Witness ==
    /\ mode = "runtime"
    /\ N >= 3
    /\ fresh_allocs = N
    /\ last.op \in {"allocate_bytes", "allocate_object"}
    /\ last.kind = "ptr"
    /\ last.ptr = BlockStart(N - 1)
    /\ Cardinality(outstanding) = N

\* the prefix [0, k) of f is in strictly descending order
StrictlyDescending(f, k) == \A i \in 0..(k - 2) : f[i] > f[i + 1]

\* C15: on a run-time pool defrag() and defrag_optimistic() leave the free
\* prefix of the index stack sorted in strictly descending order, holding
\* the same indices as before, with m_available_blocks and the allocated
\* suffix unchanged.
C15_DefragSorts ==
    /\ last.op \in {"defrag", "defrag_optimistic"}
       => StrictlyDescending(m_block_index_stack, m_available_blocks)
    /\ \A r \in {defrag, defrag_optimistic} :
           /\ r.kind = "void"
           /\ r.avail = m_available_blocks
           /\ StrictlyDescending(r.stack, r.avail)
           /\ {r.stack[t] : t \in 0..(r.avail - 1)} = FreeIndices
           /\ \A t \in m_available_blocks..(N - 1) : r.stack[t] = m_block_index_stack[t]

\* after scrambled deallocations all blocks are free and the prefix, then
\* sorted by defrag_optimistic, is the descending stack again
C15_Witness ==
    /\ mode = "runtime"
    /\ N >= 3
    /\ last.op = "defrag_optimistic"
    /\ fresh_allocs = -1
    /\ m_available_blocks = N
    /\ m_block_index_stack = InitialStack(N)

\* C16: after defrag() or defrag_optimistic() the free prefix is sorted
\* descending, and from a pool with its free prefix so sorted every
\* successful non-zero allocation returns the free block of the lowest
\* index and leaves the remaining prefix sorted; so successive allocations
\* without a deallocation in between return the free blocks in ascending
\* order of address.
C16_AscendingAfterDefrag ==
    /\ [](last.op \in {"defrag", "defrag_optimistic"}
          => StrictlyDescending(m_block_index_stack, m_available_blocks))
    /\ [][(/\ StrictlyDescending(m_block_index_stack, m_available_blocks)
           /\ last'.op \in {"allocate_bytes", "allocate_object"}
           /\ last'.kind = "ptr"
           /\ last'.ptr # nullptr
           /\ last'.ptr # zero)
          => (/\ \E i \in FreeIndices :
                     /\ \A j \in FreeIndices : i <= j
                     /\ last'.ptr = BlockStart(i)
              /\ StrictlyDescending(m_block_index_stack', m_available_blocks'))]_vars

\* blocks were deallocated; from a sorted prefix the lowest free block has
\* just been handed out although a block of a higher index is outstanding
\* and others are still free
C16_Witness ==
    /\ mode = "runtime"
    /\ fresh_allocs = -1
    /\ last.op \in {"allocate_bytes", "allocate_object"}
    /\ last.kind = "ptr"
    /\ last.ptr = BlockStart(0)
    /\ BlockStart(N - 1) \in outstanding
    /\ m_available_blocks >= 1
    /\ StrictlyDescending(m_block_index_stack, m_available_blocks)

\* the orders the N block indices can stand in
StackOrders ==
    {f \in [0..(N - 1) -> 0..(N - 1)] : \A i, j \in 0..(N - 1) : f[i] = f[j] => i = j}

\* C17: in every reachable state defrag_optimistic() yields exactly the
\* index stack and m_available_blocks that defrag() yields; and for every
\* order of the indices and every prefix length, empty, single and fully
\* reversed included, optimistic_sort ends with the result of std::sort.
C17_OptimisticEqualsSort ==
    /\ defrag_optimistic = defrag
    /\ last.op = "construct"
       => \A f \in StackOrders : \A k \in 0..N :
              optimistic_sort(f, k) = SortDescPrefix(f, k)

\* all blocks are free with the prefix fully reversed (ascending)
C17_Witness ==
    /\ mode = "runtime"
    /\ N >= 3
    /\ m_available_blocks = N
    /\ \A i \in 0..(N - 1) : m_block_index_stack[i] = i
    /\ defrag_optimistic.stack = InitialStack(N)

\* C18: during constant evaluation defrag() and defrag_optimistic() leave
\* the index stack, m_available_blocks and the registry unchanged.
C18_ConstevalDefragNoOp ==
    mode = "consteval"
    => /\ defrag = ReturnVoid
       /\ defrag_optimistic = ReturnVoid

\* C19: allocate_object<T>(n) reports the first failing condition of:
\* n * sizeof(T) exceeds the range of size_t or ptrdiff_t (array length),
\* alignof(T) > block_align (unsupported align), n * sizeof(T) > block_size
\* (unsupported size), n # 0 with available_blocks() = 0 (out of memory);
\* otherwise it succeeds, at run time taking exactly one block when n > 0
\* and returning the sentinel without taking one when n = 0.
C19_ObjectCheckOrder ==
    \A T \in Types : \A n \in ObjCounts \cup AllSizes :
        LET checks == << <<n * T.size > umax \/ n * T.size > imax, "array_length">>,
                         <<T.align > s_options.block_align, "unsupported_align">>,
                         <<n * T.size > s_options.block_size, "unsupported_size">>,
                         <<n # 0 /\ available_blocks = 0, "out_of_memory">> >>
            failing == {k \in 1..4 : checks[k][1]}
            first   == CHOOSE k \in failing : \A j \in failing : k <= j
            r       == allocate_object(T, n)
        IN  IF failing # {} THEN r = Throw(checks[first][2])
            ELSE IF mode = "consteval" THEN r.kind = "ptr"
            ELSE IF n = 0 THEN r = Return(zero)
            ELSE /\ r.kind = "ptr"
                 /\ \E i \in FreeIndices : r.ptr = BlockStart(i)
                 /\ r.avail = m_available_blocks - 1
                 /\ r.stack = m_block_index_stack

\* a typed allocation has just taken the last block of a run-time pool;
\* on the exhausted pool an over-long, an over-aligned, an oversized and a
\* fitting request each meet a different check
C19_Witness ==
    /\ mode = "runtime"
    /\ s_options.block_align >= 2
    /\ m_available_blocks = 0
    /\ last.op = "allocate_object"
    /\ last.kind = "ptr"
    /\ last.ptr \in outstanding
    /\ allocate_object([size |-> 2, align |-> 2], Pow2(SizeBits - 1)).err = "array_length"
    /\ allocate_object([size |-> OverAlign, align |-> OverAlign], 1).err = "unsupported_align"
    /\ allocate_object([size |-> 1, align |-> 1], OverSize).err = "unsupported_size"
    /\ allocate_object([size |-> 1, align |-> 1], 1).err = "out_of_memory"

\* C20: for every power-of-two align <= block_align, allocate_object<T>(n,
\* align) has the outcome of allocate_object<T>(n), pointer or error and
\* pool state, also when align < alignof(T); likewise for the nothrow pair.
C20_AlignArgumentIgnored ==
    \A a \in AllAligns :
        (has_single_bit(a) /\ a <= s_options.block_align)
        => \A T \in Types : \A n \in ObjCounts :
               /\ allocate_object_align(T, n, a) = allocate_object(T, n)
               /\ allocate_object_align_nothrow(T, n, a) = allocate_object_nothrow(T, n)

\* a typed allocation has just returned a block of a pool aligned to more
\* than 1, where align = 1 is below alignof(T) and changes nothing, also
\* for a type the pool cannot align
C20_Witness ==
    /\ s_options.block_align >= 2
    /\ last.op = "allocate_object"
    /\ last.kind = "ptr"
    /\ last.ptr \in outstanding
    /\ allocate_object_align([size |-> 2, align |-> 2], 1, 1).kind = "ptr"
    /\ allocate_object_align([size |-> OverAlign, align |-> OverAlign], 1, 1)
           = Throw("unsupported_align")
\* C21: during constant evaluation a successful allocate_object<T>(n) is
\* served by the registry alone: it appends {pointer, n} to m_ptrs and
\* leaves the index stack and m_available_blocks as they are; a successful
\* allocate_bytes(n) is served by the run-time pool alone and leaves the
\* registry as it is; no pointer is recorded in the registry and held as
\* an allocated block at once.
C21_SubstratesExclusive ==
    /\ \A T \in Types : \A n \in ObjCounts :
           LET r == allocate_object(T, n)
           IN  r.kind = "ptr"
               => /\ r.avail = m_available_blocks
                  /\ r.stack = m_block_index_stack
                  /\ r.ptrs = Append(m_ptrs, [p |-> r.ptr, n |-> n])
                  /\ ~InBlockArray(r.ptr)
                  /\ r.ptr # zero
    /\ \A n \in AllSizes :
           LET r == allocate_bytes(n)
           IN  r.kind = "ptr"
               => /\ r.ptrs = m_ptrs
                  /\ r.cap = m_cap
                  /\ ~is_maybe_allocated(r.ptr)
                  /\ n # 0 => /\ InBlockArray(r.ptr)
                              /\ r.avail = m_available_blocks - 1
    /\ \A i \in 1..Len(m_ptrs) :
           /\ ~InBlockArray(m_ptrs[i].p)
           /\ m_ptrs[i].p \notin {BlockStart(j) : j \in AllocatedIndices}
    /\ \A p \in outstanding : InBlockArray(p) <=> ~is_maybe_allocated(p)

\* a typed allocation has just been recorded in the registry while a block
\* of the run-time pool is held by a byte allocation
C21_Witness ==
    /\ mode = "consteval"
    /\ last.op = "allocate_object"
    /\ last.kind = "ptr"
    /\ is_maybe_allocated(last.ptr)
    /\ m_available_blocks < N
    /\ \E p \in outstanding : InBlockArray(p)
    /\ \E p \in outstanding : is_maybe_allocated(p)
\* C22: during constant evaluation available_blocks() equals N minus the
\* number of outstanding non-zero allocations, byte allocations held in the
\* run-time pool and typed allocations recorded in the registry counted
\* together, whatever zero-length requests were made.
C22_ConstevalAvailableBlocks ==
    mode = "consteval"
    => available_blocks = N - Cardinality(outstanding)
\* the element counts deallocate_object is tried with
AllCounts == 0..2

\* C23: during constant evaluation deallocate_object<T>(p, n) with a
\* non-null p fails the assertion 'invalid pointer' when the registry has no
\* entry for p and 'invalid size' when it has entries for p but none with
\* the count n, leaving the registry and the pool as they are in both
\* cases; it returns only when {p, n} is an entry, and then removes exactly
\* that entry.  deallocate_object(null, n) returns without effect.
C23_TypedDeallocChecks ==
    \A p \in AllPtrs \cup {nullptr} : \A n \in AllCounts :
        LET r        == deallocate_object(p, n)
            recorded == \E i \in 1..Len(m_ptrs) : m_ptrs[i].p = p
            exact    == \E i \in 1..Len(m_ptrs) : m_ptrs[i] = [p |-> p, n |-> n]
        IN  IF p = nullptr THEN r = ReturnVoid
            ELSE IF ~recorded THEN r = AssertFail("invalid pointer")
            ELSE IF ~exact THEN r = AssertFail("invalid size")
            ELSE /\ r.kind = "void"
                 /\ r.avail = m_available_blocks
                 /\ r.stack = m_block_index_stack
                 /\ Len(r.ptrs) = Len(m_ptrs) - 1
                 /\ r.ptrs = SelectSeq(m_ptrs, LAMBDA e : e.p # p)

\* a typed deallocation has just removed one entry of the registry; of the
\* entry that is left the pointer with another count fails 'invalid size',
\* with its own count it is returned, and a block handed out by
\* allocate_bytes fails 'invalid pointer'
C23_Witness ==
    /\ mode = "consteval"
    /\ ~aborted
    /\ last.op = "deallocate_object"
    /\ last.kind = "void"
    /\ last.ptr # nullptr
    /\ \E i \in 1..Len(m_ptrs) :
           /\ m_ptrs[i].n = 1
           /\ deallocate_object(m_ptrs[i].p, 0) = AssertFail("invalid size")
           /\ deallocate_object(m_ptrs[i].p, 1).kind = "void"
           /\ deallocate_object(m_ptrs[i].p + 1, 1) = AssertFail("invalid pointer")
    /\ \E p \in outstanding :
           /\ InBlockArray(p)
           /\ deallocate_object(p, 1) = AssertFail("invalid pointer")
\* C24: the storage of the registry is acquired on the first typed
\* allocation and released when the last typed allocation is returned: a
\* registry without entries has capacity 0.
C24_EmptyRegistryHoldsNoStorage ==
    Len(m_ptrs) = 0 => m_cap = 0
\* every valid chunk_options value of the model's size_t: block_size and
\* block_count up to PTRDIFF_MAX, block_align any power of two
NormOptions ==
    {o \in [block_size  : 1..imax,
            block_align : {Pow2(k) : k \in 0..(SizeBits - 1)},
            block_count : 1..imax] : valid(o)}

\* normalized() applied to its own result returns it, and block_count is kept
NormalizedIdempotent(x) ==
    /\ normalized(normalized(x)) = normalized(x)
    /\ normalized(x).block_count = x.block_count

\* the same of every valid chunk_options value
NormalizedIdempotentAll == \A x \in NormOptions : NormalizedIdempotent(x)

SmallestMultiple(a, s) ==
    CHOOSE m \in 1..(umax + imax) :
        /\ m % a = 0
        /\ m >= s
        /\ \A k \in 1..(m - 1) : ~(k % a = 0 /\ k >= s)

\* the largest power of two that divides s, for s > 0
LargestPow2Dividing(s) ==
    LET divs == {Pow2(k) : k \in 0..SizeBits} \cap {d \in 1..s : s % d = 0}
    IN  CHOOSE d \in divs : \A e \in divs : e <= d

\* what normalized() is said to return for x
NormalizedAsSpecified(x) ==
    LET y    == normalized(x)
        size == SmallestMultiple(x.block_align, x.block_size)
    IN  /\ y.block_size = size
        /\ y.block_align = IF x.block_align < max_default_align
                           THEN Min(LargestPow2Dividing(size), max_default_align)
                           ELSE x.block_align
        /\ y.block_align >= x.block_align
        /\ y.block_count = x.block_count

\* the same of every valid chunk_options value
NormalizedAsSpecifiedAll == \A x \in NormOptions : NormalizedAsSpecified(x)

\* C26: for every valid chunk_options x, x.normalized().block_size is the
\* smallest multiple of x.block_align not less than x.block_size, and
\* x.normalized().block_align is the smaller of max_default_align and the
\* largest power of two dividing that size when x.block_align is below
\* max_default_align, and x.block_align otherwise; it is never below
\* x.block_align.  {3, 4, 5} becomes {4, 4, 5}.
C26_NormalizationValues ==
    /\ Opts \in NormOptions
    /\ s_options = normalized(Opts)
    /\ NormalizedAsSpecified(Opts)
    /\ normalized([block_size |-> 3, block_align |-> 4, block_count |-> 5])
           = [block_size |-> 4, block_align |-> 4, block_count |-> 5]
    /\ NormalizedAsSpecifiedAll

\* a pool whose block size was padded and whose align was raised, while
\* for other values the align is capped at max_default_align or kept
C26_Witness ==
    /\ s_options.block_size > Opts.block_size
    /\ s_options.block_align > Opts.block_align
    /\ s_options.block_size % Opts.block_align = 0
    /\ \E x \in NormOptions :
           /\ x.block_align < max_default_align
           /\ LargestPow2Dividing(normalized(x).block_size) > max_default_align
           /\ normalized(x).block_align = max_default_align
    /\ \E x \in NormOptions :
           /\ x.block_align > max_default_align
           /\ normalized(x).block_align = x.block_align
\* the sum the padding loop computes, without the wrap of size_t
RECURSIVE PadLoopExact(_, _, _)
PadLoopExact(size, block_size, block_align) ==
    IF size < block_size
    THEN PadLoopExact(size + block_align, block_size, block_align)
    ELSE size

\* what normalized() keeps of the validity of x
NormalizedWellFormed(x) ==
    LET y == normalized(x)
    IN  /\ y.block_size > 0
        /\ y.block_count > 0
        /\ has_single_bit(y.block_align)
        /\ y.block_size % y.block_align = 0
        /\ PadLoopExact(x.block_align, x.block_size, x.block_align) = y.block_size
        /\ y.block_size <= umax
        /\ valid(y) <=> y.block_size * y.block_count <= imax

\* the same of every valid chunk_options value
NormalizedWellFormedAll == \A x \in NormOptions : NormalizedWellFormed(x)

\* C27 (as amended): for every valid chunk_options x, x.normalized() has a
\* block_size and a block_count above zero and a power-of-two block_align
\* that divides its block_size, and the padding loop ends without wrapping;
\* x.normalized() is valid exactly when the padded block_size times
\* block_count still fits std::ptrdiff_t.
C27_NormalizedWellFormed ==
    /\ Opts \in NormOptions
    /\ NormalizedWellFormed(Opts)
    /\ s_options.block_size % s_options.block_align = 0
    /\ NormalizedWellFormedAll

\* C27 (as stated): for every valid chunk_options x, x.normalized() is
\* valid and its block_align divides its block_size.
C27_NormalizedValid_AsStated ==
    /\ valid(Opts) => valid(s_options)
    /\ \A x \in NormOptions :
           /\ valid(normalized(x))
           /\ normalized(x).block_size % normalized(x).block_align = 0

\* a pool whose block size was padded, its normalised options valid, while
\* for another valid value the padding takes block_size * block_count past
\* PTRDIFF_MAX
C27_Witness ==
    /\ s_options.block_size > Opts.block_size
    /\ valid(Opts)
    /\ valid(s_options)
    /\ s_options.block_size % s_options.block_align = 0
    /\ \E x \in NormOptions :
           /\ normalized(x).block_size > x.block_size
           /\ normalized(x).block_size * x.block_count > imax
           /\ ~valid(normalized(x))
\* where the block array of a second chunk_resource<Opts> object can lie:
\* aligned, above the block array of this one and above the zero block
OtherBlocks == {zero + k * sizeof_block_type : k \in 1..2}

\* is_maybe_owned of a second chunk_resource<Opts> object whose m_blocks
\* starts at other; the zero block is the one of this object, being static
other_is_maybe_owned(other, p) ==
    IF p = nullptr \/ p = zero THEN FALSE
    ELSE LET lo == other
             hi == other + s_options.block_count * sizeof_block_type
         IN  p >= lo /\ p < hi

\* every address from null to past the block array of a second object
AllAddresses == 0..(zero + (2 + s_options.block_count) * sizeof_block_type)

\* C28: at run time maybe_owns(p) is true exactly when p lies in
\* [blocks, blocks + N blocks) and is neither null nor the sentinel; for a
\* second resource whose block array does not overlap this one's no
\* pointer satisfies maybe_owns of both, and every outstanding non-zero
\* pointer of this resource satisfies its maybe_owns and not the other's.
C28_MaybeOwns ==
    mode = "runtime"
    => /\ \A p \in AllAddresses :
              maybe_owns(p) <=> /\ p >= blocks
                                /\ p < blocks + N * sizeof_block_type
                                /\ p # nullptr
                                /\ p # zero
       /\ \A other \in OtherBlocks :
              /\ \A p \in AllAddresses :
                     ~(maybe_owns(p) /\ other_is_maybe_owned(other, p))
              /\ \A p \in outstanding :
                     maybe_owns(p) /\ ~other_is_maybe_owned(other, p)

\* the last block of the pool has just been handed out: it is owned by
\* this resource and not by a second one, whose own first block is not
\* owned by this one; the sentinel and the address past the array are
\* owned by neither
C28_Witness ==
    /\ mode = "runtime"
    /\ N >= 2
    /\ last.op \in {"allocate_bytes", "allocate_object"}
    /\ last.kind = "ptr"
    /\ last.ptr = BlockAddr(N - 1)
    /\ last.ptr \in outstanding
    /\ maybe_owns(last.ptr)
    /\ maybe_owns(last.ptr + 1)
    /\ ~maybe_owns(zero)
    /\ ~maybe_owns(BlockAddr(N) + 1)
    /\ \E other \in OtherBlocks :
           /\ other_is_maybe_owned(other, other)
           /\ ~maybe_owns(other)
           /\ ~other_is_maybe_owned(other, last.ptr)
\* the call has failed: a throwing overload has raised, a nothrow overload
\* has returned null; the pool is as it was
Failed(t, nt) == t.kind = "throw" /\ nt = Return(nullptr)

Suffix(stack, avail) == [i \in 1..(N - avail) |-> stack[avail + i - 1]]

\* the sequence s without its k-th element
RemoveAt(s, k) == SubSeq(s, 1, k - 1) \o SubSeq(s, k + 1, Len(s))

\* C30 (as amended): on a run-time pool the allocated suffix
\* index_stack[available..N) holds exactly the indices of the allocated
\* blocks; an allocation puts the index of its block at
\* index_stack[available], in front of the others, and a deallocation
\* puts the index that was at index_stack[available] into the place of the
\* returned one, so that the others keep their order only when the block
\* returned is the one at index_stack[available].
C30_AllocatedSuffix ==
    /\ [](/\ {BlockAddr(i) : i \in AllocatedIndices} = outstanding
          /\ (/\ last.op \in {"allocate_bytes", "allocate_object"}
              /\ last.kind = "ptr")
             => BlockAddr(m_block_index_stack[m_available_blocks]) = last.ptr)
    /\ [][LET old == Suffix(m_block_index_stack, m_available_blocks)
              new == Suffix(m_block_index_stack', m_available_blocks')
          IN  IF m_available_blocks' < m_available_blocks
              THEN /\ BlockAddr(new[1]) = last'.ptr
                   /\ Tail(new) = old
              ELSE IF m_available_blocks' > m_available_blocks
              THEN \E k \in 1..Len(old) :
                       /\ BlockAddr(old[k]) = last'.ptr
                       /\ new = Tail([old EXCEPT ![k] = old[1]])
              ELSE new = old]_vars

\* C30 (as stated): the allocated suffix lists the allocated blocks in
\* allocation order, the most recently allocated first: an allocation puts
\* its block in front, a deallocation takes its block out and leaves the
\* others in their order, and nothing else changes the suffix.
C30_AllocationOrder_AsStated ==
    [][LET old == Suffix(m_block_index_stack, m_available_blocks)
           new == Suffix(m_block_index_stack', m_available_blocks')
       IN  IF m_available_blocks' < m_available_blocks
           THEN Tail(new) = old
           ELSE IF m_available_blocks' > m_available_blocks
           THEN \E k \in 1..Len(old) : new = RemoveAt(old, k)
           ELSE new = old]_vars

\* blocks 0, 1 and 2 of a three-block pool were taken and block 0, the one
\* allocated first, has just been returned: the suffix reads 1, 2 although
\* block 2 was allocated after block 1
C30_Witness ==
    /\ mode = "runtime"
    /\ N = 3
    /\ last.op \in {"deallocate_bytes", "deallocate_object"}
    /\ last.kind = "void"
    /\ last.ptr = BlockAddr(0)
    /\ m_available_blocks = 1
    /\ m_block_index_stack[0] = 0
    /\ m_block_index_stack[1] = 1
    /\ m_block_index_stack[2] = 2
    /\ outstanding = {BlockAddr(1), BlockAddr(2)}

\* A step of a strictly last-in first-out run that returns the most recently
\* allocated outstanding block.
LifoDeallocation ==
    /\ lifo_order # LifoBroken
    /\ lifo_order # << >>
    /\ lifo_order' = SubSeq(lifo_order, 1, Len(lifo_order) - 1)

\* the index of the block a LifoDeallocation step frees
LifoFreedIndex == block_index(lifo_order[Len(lifo_order)]).idx

\* C31: on a run-time pool used strictly last-in first-out (in particular when
\* all N blocks are allocated and then returned in reverse order of
\* allocation), every deallocation finds the block it frees at
\* index_stack[available] as available stands before the call, leaves the
\* index stack as it was and raises available by one, so that after the call
\* the index just freed is at index_stack[available - 1], the top of the free
\* prefix.
C31_LifoFastPath ==
    [][LifoDeallocation =>
        /\ m_available_blocks < N
        /\ m_block_index_stack[m_available_blocks] = LifoFreedIndex
        /\ m_block_index_stack' = m_block_index_stack
        /\ m_available_blocks' = m_available_blocks + 1
        /\ m_block_index_stack'[m_available_blocks' - 1] = LifoFreedIndex]_vars

\* C31 as stated: after each such deallocation index_stack[available], read
\* with the value available has after the call, is the index just freed.
C31_LifoFastPath_AsStated ==
    [][LifoDeallocation =>
        /\ m_available_blocks' < N
        /\ m_block_index_stack'[m_available_blocks'] = LifoFreedIndex]_vars

\* Every block was allocated and the most recently allocated one has just been
\* returned, the others still being outstanding in allocation order.
C31_Witness ==
    /\ mode = "runtime"
    /\ N >= 2
    /\ lifo_order # LifoBroken
    /\ Len(lifo_order) = N - 1
    /\ last.op = "deallocate_bytes"
    /\ m_available_blocks = 1
    /\ m_block_index_stack[0] = block_index(last.ptr).idx

\* the outcome of a failed allocation: an exception, or the null pointer of a
\* nothrow overload
FailedAllocation(r) == r.kind = "throw" \/ (r.kind = "ptr" /\ r.ptr = nullptr)

\* the outcome leaves index_stack, available and the registry as they are
PoolUntouched(r) ==
    /\ r.stack = m_block_index_stack
    /\ r.avail = m_available_blocks
    /\ r.ptrs = m_ptrs
    /\ r.cap = m_cap

\* a failed call leaves the pool as it was
FailureLeavesPool(r) == FailedAllocation(r) => PoolUntouched(r)

\* C32: in every reachable state, every allocation call that fails (throwing
\* any of the error kinds, or returning null from a nothrow overload, byte or
\* typed) leaves index_stack, available and the build-time registry exactly
\* as they were before the call.
C32_FailedAllocationNoEffect ==
    /\ \A n \in AllSizes :
          /\ FailureLeavesPool(allocate_bytes(n))
          /\ FailureLeavesPool(allocate_bytes_nothrow(n))
    /\ \A n \in ByteSizes, a \in AllAligns :
          /\ FailureLeavesPool(allocate_bytes_align(n, a))
          /\ FailureLeavesPool(allocate_bytes_align_nothrow(n, a))
    /\ \A T \in Types, n \in ObjCounts :
          /\ FailureLeavesPool(allocate_object(T, n))
          /\ FailureLeavesPool(allocate_object_nothrow(T, n))
          /\ \A a \in Aligns :
                /\ FailureLeavesPool(allocate_object_align(T, n, a))
                /\ FailureLeavesPool(allocate_object_align_nothrow(T, n, a))

\* A pool with blocks handed out on which calls of every failure kind fail:
\* an unsupported size, an invalid and an unsupported align, an overflowing
\* length and, the last block being taken, exhaustion.
C32_Witness ==
    /\ last.kind = "ptr" /\ last.ptr # nullptr
    /\ outstanding # {}
    /\ available_blocks = 0
    /\ allocate_bytes(1).err = "out_of_memory"
    /\ allocate_bytes(OverSize).err = "unsupported_size"
    /\ allocate_bytes_align(1, 3).err = "invalid_align"
    /\ allocate_bytes_align(1, OverAlign).err = "unsupported_align"
    /\ allocate_object([size |-> 2, align |-> 2], Pow2(SizeBits - 1)).err = "array_length"
    /\ allocate_bytes_nothrow(OverSize).ptr = nullptr
    /\ allocate_object_nothrow([size |-> 1, align |-> 1], 1).ptr = nullptr
    /\ \A n \in AllSizes : FailedAllocation(allocate_bytes_nothrow(n)) \/ n = 0

\* the free block indices of an outcome
OutcomeFreeIndices(r) == {r.stack[t] : t \in 0..(r.avail - 1)}

\* the outcome leaves available and the allocated suffix alone and keeps the
\* set of free block indices
DefragFrame(r) ==
    /\ r.kind = "void"
    /\ r.avail = m_available_blocks
    /\ \A t \in m_available_blocks..(N - 1) : r.stack[t] = m_block_index_stack[t]
    /\ OutcomeFreeIndices(r) = FreeIndices
    /\ r.ptrs = m_ptrs
    /\ r.cap = m_cap

\* a step in which defrag() or defrag_optimistic() reordered the stack
DefragStep ==
    /\ last'.op \in {"defrag", "defrag_optimistic"}
    /\ m_block_index_stack' # m_block_index_stack

\* C33: defrag() and defrag_optimistic() do not change available, do not
\* change any element of the allocated suffix index_stack[available..N) and
\* preserve the set of free block indices; across a call every outstanding
\* block pointer stays allocated and is_allocated returns the same token for
\* it.
C33_DefragFrame ==
    /\ [](DefragFrame(defrag) /\ DefragFrame(defrag_optimistic))
    /\ [][DefragStep =>
            /\ outstanding' = outstanding
            /\ \A p \in outstanding :
                  is_owned(p) =>
                      /\ is_allocated(p).token >= m_available_blocks
                      /\ is_allocated(p)' = is_allocated(p)]_vars

\* A defragmentation has just reordered the free prefix while a block was
\* outstanding.
C33_Witness ==
    /\ last.op \in {"defrag", "defrag_optimistic"}
    /\ \E p \in outstanding : is_owned(p) /\ is_allocated(p).token >= m_available_blocks
    /\ m_available_blocks >= 2

\* tokens a caller can hold: -1 and every position of the index stack, and N
Tokens == -1..N

\* return_block_unchecked(t) acts on the position t alone: it fails exactly
\* when t is out of range or below available, and otherwise frees the block
\* whose index is at index_stack[t] at the time of the call
ReturnsBlockAtPosition(t) ==
    LET r == return_block_unchecked(t)
    IN  /\ r.failed <=> (t < 0 \/ t >= N \/ t < m_available_blocks)
        /\ ~r.failed =>
              /\ r.avail = m_available_blocks + 1
              /\ r.stack[m_available_blocks] = m_block_index_stack[t]
              /\ {r.stack[u] : u \in 0..(r.avail - 1)}
                     = FreeIndices \cup {m_block_index_stack[t]}

\* the token is_allocated returned for the block i before the step still
\* names that block after it
TokenStillNames(i, t) == m_block_index_stack'[t] = i

\* C34: return_block_unchecked(t) frees the block whose index is at
\* index_stack[t] when it is called, and fails only when t is outside 0..N-1
\* or below available. A token obtained from is_allocated(p) keeps naming p's
\* block across allocations and defragmentations, which leave the allocated
\* suffix alone; across a deallocation it need not, and nothing in
\* return_block_unchecked detects that.
C34_TokenNamesPosition ==
    /\ [](\A t \in Tokens : ReturnsBlockAtPosition(t))
    /\ [][(\/ m_available_blocks' < m_available_blocks
            \/ (/\ m_available_blocks' = m_available_blocks
                /\ m_block_index_stack' # m_block_index_stack)) =>
            \A i \in 0..(N - 1), t \in 0..(N - 1) :
                is_allocated(BlockAddr(i)).token = t => TokenStillNames(i, t)]_vars

\* C34 as stated: with a token obtained from is_allocated(p) before a mutating
\* operation, return_block_unchecked either fails an assertion or frees p's
\* block.
C34_StaleTokenSafe_AsStated ==
    [][m_block_index_stack' # m_block_index_stack
         \/ m_available_blocks' # m_available_blocks =>
            \A i \in 0..(N - 1), t \in 0..(N - 1) :
                is_allocated(BlockAddr(i)).token = t =>
                    \/ return_block_unchecked(t)'.failed
                    \/ TokenStillNames(i, t)]_vars

\* The block returned last is on top of the free prefix, and the position at
\* which the constructor put its index, which is_allocated named for it
\* while the stack was untouched, holds the index of a block that is still
\* allocated: return_block_unchecked accepts that position.
C34_Witness ==
    /\ mode = "runtime"
    /\ last.op \in {"deallocate_bytes", "deallocate_object"}
    /\ is_owned(last.ptr)
    /\ LET i == block_index(last.ptr).idx
           t == N - 1 - i
       IN  /\ t >= m_available_blocks
           /\ m_block_index_stack[m_available_blocks - 1] = i
           /\ m_block_index_stack[t] # i
           /\ BlockAddr(m_block_index_stack[t]) \in outstanding
           /\ ~return_block_unchecked(t).failed

\* the value of 'it' when the first scan of is_owned ends
RECURSIVE OwnedScanUpEnd(_, _)
OwnedScanUpEnd(it, p) ==
    IF it <= p /\ it # p THEN OwnedScanUpEnd(it + sizeof_block_type, p) ELSE it

\* the value of 'it' when the second scan of is_owned ends
RECURSIVE OwnedScanLowEnd(_, _, _)
OwnedScanLowEnd(it, mid, p) ==
    IF it # mid /\ it <= p /\ it # p
    THEN OwnedScanLowEnd(it + sizeof_block_type, mid, p) ELSE it

\* p is the start address of one of the N blocks
IsBlockStart(p) == \E i \in 0..(N - 1) : p = BlockAddr(i)

\* both branches of is_owned agree on p, and the scans stay inside the array
OwnedBranchesAgree(p) ==
    LET mid == BlockAddr(m_available_blocks)
        c == is_maybe_owned(p) /\ is_owned_consteval(p)
        r == is_maybe_owned(p) /\ is_owned_runtime(p)
    IN  /\ c = r
        /\ c = IsBlockStart(p)
        /\ is_owned(p) = IsBlockStart(p)
        /\ is_maybe_owned(p) =>
              /\ OwnedScanUpEnd(mid, p) <= BlockAddr(N)
              /\ OwnedScanLowEnd(blocks, mid, p) <= mid

\* C35: in every reachable state and for every pointer value p, the scanning
\* branch of is_owned (from blocks + available up, then from blocks up to
\* blocks + available) and the arithmetic branch (the offset of p from blocks
\* is a multiple of the block size) give the same result, which is true
\* exactly when p is the start address of one of the N blocks; neither scan
\* moves past the end of the block array.
C35_IsOwnedBranchesAgree == \A p \in AllAddresses : OwnedBranchesAgree(p)

\* Some blocks are allocated and some free, so that the first scan finds an
\* allocated block, the second a free one, and an address inside a block is
\* rejected by both branches.
C35_Witness ==
    /\ 0 < m_available_blocks /\ m_available_blocks < N
    /\ sizeof_block_type > 1
    /\ LET mid == BlockAddr(m_available_blocks)
       IN  /\ OwnedScanUp(mid, BlockAddr(N - 1))
           /\ ~OwnedScanUp(mid, blocks) /\ OwnedScanLow(blocks, mid, blocks)
           /\ is_maybe_owned(blocks + 1)
           /\ ~is_owned_consteval(blocks + 1) /\ ~is_owned_runtime(blocks + 1)

\* the outcome bi of block_index(p): no assertion failed and the result is
\* the index in 0..N-1 of the block that starts at p
BlockIndexCorrect(bi, p) ==
    /\ ~bi.failed
    /\ 0 <= bi.idx /\ bi.idx < N
    /\ BlockAddr(bi.idx) = p

\* C36: in every reachable state and for every pointer p with is_owned(p),
\* each variant of block_index in the repository, the current one and the
\* older one, passes all its assertions and returns the index i in 0..N-1
\* with blocks + i = p, whatever the current available count.
C36_BlockIndexAllVariants ==
    \A p \in AllAddresses :
        is_owned(p) =>
            /\ BlockIndexCorrect(block_index(p), p)
            /\ BlockIndexCorrect(block_index_older(p), p)

\* a step in which a block was handed out
AllocationStep == m_available_blocks' = m_available_blocks - 1

\* C37: on a run-time pool used strictly last-in first-out from construction
\* (every deallocation returns the most recently allocated outstanding
\* block), the index stack stays as the constructor left it and the most
\* recently allocated block is at index_stack[available]; each deallocation's
\* is_allocated yields the token available, the first position examined, so
\* that the swap of return_block_unchecked is a self-swap. In any state, an
\* allocation leaves the stack alone and lowers available by one, and right
\* after it a deallocation of the pointer just returned leaves the stack
\* alone and raises available by one: index_stack and available are
\* restored exactly.
C37_StrictLifo ==
    /\ [](lifo_order # LifoBroken =>
            /\ \A i \in 0..(N - 1) : m_block_index_stack[i] = N - 1 - i
            /\ m_available_blocks = N - Len(lifo_order)
            /\ lifo_order # << >> =>
                  is_allocated(lifo_order[Len(lifo_order)]).token = m_available_blocks)
    /\ [][LifoDeallocation =>
            /\ is_allocated(lifo_order[Len(lifo_order)]).token = m_available_blocks
            /\ StackFind(LifoFreedIndex) = m_available_blocks
            /\ return_block_unchecked(m_available_blocks).stack = m_block_index_stack
            /\ m_block_index_stack' = m_block_index_stack
            /\ m_available_blocks' = m_available_blocks + 1]_vars
    /\ [][AllocationStep =>
            /\ m_block_index_stack' = m_block_index_stack
            /\ last'.kind = "ptr"
            /\ last'.ptr = BlockAddr(m_block_index_stack[m_available_blocks - 1])]_vars
    /\ [](last.kind = "ptr" =>
            /\ is_allocated(last.ptr).token = m_available_blocks
            /\ deallocate_bytes(last.ptr, 1).kind = "void"
            /\ deallocate_bytes(last.ptr, 1).stack = m_block_index_stack
            /\ deallocate_bytes(last.ptr, 1).avail = m_available_blocks + 1)

\* A pool used strictly last-in first-out in which the most recently
\* allocated block has just been returned, with older blocks still
\* outstanding and free blocks left.
C37_Witness ==
    /\ mode = "runtime"
    /\ lifo_order # LifoBroken
    /\ Len(lifo_order) >= 1
    /\ fresh_allocs = -1
    /\ last.op \in {"deallocate_bytes", "deallocate_object"}
    /\ m_available_blocks >= 1 /\ m_available_blocks < N

\* the pool state the constructor establishes
AsConstructed(stack, avail) ==
    /\ avail = N
    /\ \A i \in 0..(N - 1) : stack[i] = N - 1 - i

\* C38: in every reachable run-time state in which every outstanding block
\* pointer has been deallocated, whatever the order of the deallocations,
\* all N blocks are free, and a call of defrag() or of defrag_optimistic()
\* yields the freshly constructed pool state: available = N and
\* index_stack[i] = N-1-i for all i. Once such a call has been made the pool
\* is in that state.
C38_DefragRestoresConstructed ==
    outstanding = {} =>
        /\ m_available_blocks = N
        /\ AsConstructed(defrag.stack, defrag.avail)
        /\ AsConstructed(defrag_optimistic.stack, defrag_optimistic.avail)
        /\ last.op \in {"defrag", "defrag_optimistic"} =>
              AsConstructed(m_block_index_stack, m_available_blocks)

\* Blocks were returned out of allocation order, which left the index stack
\* permuted, every block is free again, and a defragmentation has just put
\* the stack back in order.
C38_Witness ==
    /\ mode = "runtime"
    /\ N >= 3
    /\ lifo_order = LifoBroken
    /\ outstanding = {}
    /\ last.op \in {"defrag", "defrag_optimistic"}
    /\ AsConstructed(m_block_index_stack, m_available_blocks)

\* the number of entries of the registry s equal to e
EntryCount(s, e) == Cardinality({i \in 1..Len(s) : s[i] = e})

\* the outcomes of the typed allocation overloads for n objects
TypedAllocationOutcomes(n) ==
    {allocate_object(T, n) : T \in Types}
    \cup {allocate_object_nothrow(T, n) : T \in Types}
    \cup {allocate_object_align(T, n, a) : T \in Types, a \in AllAligns}
    \cup {allocate_object_align_nothrow(T, n, a) : T \in Types, a \in AllAligns}

\* a successful typed allocation appends the one entry {p, n}
AppendsOneEntry(r, n) ==
    (r.kind = "ptr" /\ r.ptr # nullptr) =>
        /\ r.ptrs = Append(m_ptrs, [p |-> r.ptr, n |-> n])
        /\ Len(r.ptrs) <= r.cap

\* a successful typed deallocation removes the one entry {p, n} at the token
\* position and keeps the others in order
RemovesOneEntry(ptr, n) ==
    LET r     == deallocate_object(ptr, n)
        token == consteval_is_allocated(ptr, n)
        e     == [p |-> ptr, n |-> n]
    IN  (r.kind = "void" /\ ptr # nullptr) =>
            /\ token >= 0 /\ token < Len(m_ptrs)
            /\ m_ptrs[token + 1] = e
            /\ r.ptrs = RemoveAt(m_ptrs, token + 1)
            /\ EntryCount(r.ptrs, e) = EntryCount(m_ptrs, e) - 1
            /\ \A o \in {m_ptrs[i] : i \in 1..Len(m_ptrs)} \ {e} :
                   EntryCount(r.ptrs, o) = EntryCount(m_ptrs, o)
            /\ Len(r.ptrs) = allocation_count - 1
            /\ Len(r.ptrs) <= r.cap

CompatCounts ==
    0..OverSize \cup {Pow2(SizeBits - 1) - 1, Pow2(SizeBits - 1), umax}

\* C40: on a run-time pool with at least one free block, for every object
\* type T and every length n, allocate_object<T>(n) succeeds exactly when
\* options().compatible_with<T>(n) is true, and compatible_with<T>(n) is true
\* exactly when n * sizeof(T) does not overflow the size type, n * sizeof(T)
\* is at most block_size and alignof(T) is at most block_align.
C40_AllocateIffCompatible ==
    (mode = "runtime" /\ available_blocks >= 1) =>
        \A T \in Types, n \in CompatCounts :
            /\ (allocate_object(T, n).kind = "ptr") <=> compatible_with(s_options, T, n)
            /\ allocate_object(T, n).kind = "ptr" => allocate_object(T, n).ptr # nullptr
            /\ compatible_with(s_options, T, n) <=>
                  /\ n * T.size <= umax
                  /\ n * T.size <= s_options.block_size
                  /\ T.align <= s_options.block_align

\* A pool with a block taken and a block free, on which a typed allocation
\* fits, one is too long, one is over-aligned and one has a length whose
\* product with sizeof(T) wraps around to a size that would fit.
C40_Witness ==
    /\ mode = "runtime"
    /\ last.op = "allocate_object" /\ last.kind = "ptr"
    /\ available_blocks >= 1 /\ available_blocks < N
    /\ s_options.block_align >= 2
    /\ compatible_with(s_options, [size |-> 2, align |-> 2], 1)
    /\ allocate_object([size |-> 2, align |-> 2], 1).kind = "ptr"
    /\ ~compatible_with(s_options, [size |-> 1, align |-> 1], OverSize)
    /\ ~compatible_with(s_options, [size |-> OverAlign, align |-> OverAlign], 0)
    /\ ToSizeT(2 * Pow2(SizeBits - 1)) <= s_options.block_size
    /\ ~compatible_with(s_options, [size |-> 2, align |-> 2], Pow2(SizeBits - 1))
    /\ allocate_object([size |-> 2, align |-> 2], Pow2(SizeBits - 1)).err = "array_length"

====
